---- MODULE Spec2Model ----
(***************************************************************************)
(* Model of the GTNET-SKT channel client (src/Comms/gtnet_channel.py):     *)
(* one GtnetChannel object, its caller thread (start, stop, set_cmd), its  *)
(* receive and transmit worker threads, and the simulator at the far end   *)
(* of the socket.  Every step of a thread that reads or writes state       *)
(* shared with another thread is one action.                               *)
(*                                                                         *)
(* Command values are counted in halves (2 is 1.0, 3 is 1.5) so that the   *)
(* coercion int(v) of set_cmd is a real truncation.                        *)
(***************************************************************************)
EXTENDS Integers, Sequences, FiniteSets, TLC

\* ------------------------------------------------------------------ bounds
MaxGen    == 2   \* start() calls that create worker threads
MaxSock   == 2   \* successful connects
MaxCmds   == 2   \* set_cmd calls
MaxFrames == 2   \* command frames put on the wire
MaxUpd    == 2   \* entries of one set_cmd updates dict
MaxRaise  == 2   \* listener calls that raise
RampSteps == 3   \* steps of the load ramp (the loop runs RampSteps + 1 ticks)
MaxWindow == 11  \* samples of the longest stability window examined

\* ---------------------------------------------------- channel description
\* ChannelSpec.cmd_names / cmd_types: one "int" and one "float" command.
CmdNames == <<"A", "B">>
CmdTypes == <<"int", "float">>
\* A name that is not in cmd_names.
UnknownName == "X"
Names == {CmdNames[i] : i \in 1..Len(CmdNames)} \cup {UnknownName}
\* Values a caller passes, in halves: 0 and 1.5.
Vals == {0, 3}
\* Values of the ready-to-send field in a telemetry frame.
RtsVals == {0, 1}
\* latest_meas before any frame: the dict is empty, .get() gives None.
NoMeas == -1

Threads == 1..MaxGen
Main    == <<"main", 0>>
Workers == {"rx", "tx"} \X Threads
Procs   == Workers \cup {Main}

VARIABLES
  cfg,          \* [ka, gate, rc, cb]: tx_keepalive_s set, ready_to_send_name set,
                \* spec.reconnect, on_meas set
  sock,         \* self._sock: 0 is None, else a socket id
  open,         \* sockets created and not yet closed by this process
  broken,       \* open sockets the peer has closed or reset
  nsock,        \* sockets created so far
  stop_evt,     \* self._stop_evt
  rx_thread,    \* self._rx_thread: 0 is None, else the thread's number
  tx_thread,    \* self._tx_thread
  pc,           \* where each thread is
  loc,          \* each thread's local socket reference (sock in _close_socket/_ensure_connected)
  latest_meas,  \* ready-to-send field of self._latest_meas, NoMeas when empty
  frame,        \* RX thread local: meas, the frame handed to on_meas (NoMeas when none)
  cmd_state,    \* self._cmd_state
  dirty,        \* self._dirty
  payload,      \* TX thread local: payload built by _build_cmd_payload
  kaDue,        \* TX thread local: (now - last_tx) >= tx_keepalive_s
  rx_errors,    \* stats.rx_errors
  tx_errors,    \* stats.tx_errors
  wire,         \* the payload of the last command frame sent, <<>> before the first
  nsent,        \* stats.tx_frames
  \* history variables, read by the properties only
  hist,         \* cmd_state after each set_cmd call, the initial state first
  ahist,        \* the same history had every call been applied whole or not at all
  kinds,        \* per set_cmd call: "changing", "redundant" or "fault"
  lastReq,      \* per command field, the coerced value of the latest write applied
  resyncOwed,   \* a disconnect was handled and no frame went out since
  gateRts,      \* TX thread: ready-to-send value _ok_to_send read in this tick
  builtVer,     \* TX thread: Len(hist) when the payload was built
  sentUnready,  \* the last frame went out while the latest telemetry read not ready
  cbRaised,     \* listener calls that raised so far
  \* the test sequencer, main() of run_islanding_dg_load_test.py
  spc,          \* where main() is
  started,      \* channels whose start() was called
  stopped,      \* channels whose stop() was called
  outcome,      \* "running", "completed", "aborted" (RuntimeError) or "error"
  passed,       \* the gates passed so far, in order (history)
  emitted,      \* the kinds of command emitted so far (history)
  try_i,        \* ensure_dg_closed: i
  attempts,     \* ensure_dg_closed: attempts begun (history)
  wdetRead,     \* ensure_dg_closed: W_DETECTED as last read in this attempt (history)
  brkRead,      \* ensure_dg_closed: BRKGEN as last read by wait_for_breaker (history)
  ramp_k,       \* ramp loop: k
  ovl_count,    \* ramp loop: ovl_count
  wdet_count,   \* ramp loop: wdet_count
  prev_brkgen,  \* ramp loop: prev_brkgen
  trip_cause,   \* ramp loop: trip_cause, "none" for None
  tick,         \* what the last ramp tick read and did (history)
  ovlHist,      \* the last OVERLOADED readings, newest last (history)
  wdetHist,     \* the last W_DETECTED readings of the ramp, newest last (history)
  \* the stability predicate
  window,       \* samples handed to _stable_window_ok
  verdict,      \* "none" before the call, then "ok" (True) or "no" (False)
  \* a polling wait of the sequencer and what main() does with its result
  wait,         \* [wpc, now, t0, timeout_s, target, result, after]
  \* the supervisory controller
  ctl,          \* the fields of one DGController, its clock and its last step
  \* the disruption layer, command path of one channel
  disr,         \* the channel's AutonomyDegradationConfig, deliveries and sink
  \* the disruption layer, telemetry path of one channel
  tele,         \* the channel's DataDegradationConfig, _last_meas, deliveries and sink
  \* the data bus and the threads that emit commands through it
  bus           \* _cmd_log, the channel's command state and each caller's position

vars == <<cfg, sock, open, broken, nsock, stop_evt, rx_thread, tx_thread, pc, loc,
          latest_meas, frame, cmd_state, dirty, payload, kaDue, rx_errors, tx_errors,
          wire, nsent, hist, ahist, kinds, lastReq, resyncOwed, gateRts, builtVer, sentUnready,
          cbRaised, spc, started, stopped, outcome, passed, emitted, try_i, attempts,
          wdetRead, brkRead, ramp_k, ovl_count, wdet_count, prev_brkgen, trip_cause, tick,
          ovlHist, wdetHist, window, verdict, wait, ctl, disr, tele, bus>>

chanVars  == <<sock, open, broken, nsock>>
lifeVars  == <<stop_evt, rx_thread, tx_thread>>
cmdVars   == <<cmd_state, hist, ahist, kinds, lastReq>>
txLocals  == <<payload, kaDue, gateRts, builtVer>>
statVars  == <<rx_errors, tx_errors>>
wireVars  == <<wire, nsent, sentUnready>>

\* All the variables of one GtnetChannel.
channelVars == <<cfg, sock, open, broken, nsock, stop_evt, rx_thread, tx_thread, pc, loc,
                 latest_meas, frame, cmd_state, dirty, payload, kaDue, rx_errors,
                 tx_errors, wire, nsent, hist, ahist, kinds, lastReq, resyncOwed,
                 gateRts, builtVer, sentUnready, cbRaised>>

runVars    == <<spc, started, stopped, outcome>>
gateVars   == <<passed, emitted>>
ensureVars == <<try_i, attempts, wdetRead, brkRead>>
rampVars   == <<ramp_k, ovl_count, wdet_count, prev_brkgen, trip_cause, tick, ovlHist, wdetHist>>
seqVars    == <<runVars, gateVars, ensureVars, rampVars>>
winVars    == <<window, verdict>>

\* The variables of the components around the channel.
moreVars   == <<tele, bus>>
restVars   == <<wait, ctl, disr, moreVars>>
compVars   == <<seqVars, winVars, restVars>>

\* ------------------------------------------------------------- __init__
CmdFields == {CmdNames[i] : i \in 1..Len(CmdNames)}
\* _cmd_state[name] = 0 if typ == "int" else 0.0
InitCmdState == [k \in CmdFields |-> 0]

Configs == [ka : BOOLEAN, gate : BOOLEAN, rc : BOOLEAN, cb : BOOLEAN]

\* __init__, lines 115-148: everything but the configuration and the threads.
Constructed ==
  /\ sock = 0 /\ open = {} /\ broken = {} /\ nsock = 0
  /\ stop_evt = FALSE
  /\ loc = [p \in Procs |-> 0]
  /\ latest_meas = NoMeas
  /\ frame = [i \in Threads |-> NoMeas]
  /\ cmd_state = InitCmdState
  /\ dirty = FALSE
  /\ payload = [i \in Threads |-> InitCmdState]
  /\ kaDue = [i \in Threads |-> TRUE]
  /\ rx_errors = 0 /\ tx_errors = 0
  /\ wire = <<>> /\ nsent = 0
  /\ hist = <<InitCmdState>> /\ ahist = <<InitCmdState>> /\ kinds = <<>>
  /\ lastReq = InitCmdState
  /\ resyncOwed = FALSE
  /\ gateRts = [i \in Threads |-> NoMeas]
  /\ builtVer = [i \in Threads |-> 1]
  /\ sentUnready = FALSE
  /\ cbRaised = 0

\* A reading that is absent: no frame yet, or no such key in it (None).
Missing == NoMeas

NoTick == [edge |-> FALSE, sustained |-> FALSE, bothOff |-> FALSE,
           result |-> "none", emits |-> {}]

\* main() before its first statement, lines 238-253: nothing started, the locals
\* of ensure_dg_closed and of the ramp loop not yet bound.
SeqIdle ==
  /\ spc = "start" /\ started = {} /\ stopped = {} /\ outcome = "running"
  /\ passed = <<>> /\ emitted = {}
  /\ try_i = 0 /\ attempts = 0 /\ wdetRead = Missing /\ brkRead = Missing
  /\ ramp_k = 0 /\ ovl_count = 0 /\ wdet_count = 0 /\ prev_brkgen = Missing
  /\ trip_cause = "none" /\ tick = NoTick /\ ovlHist = <<>> /\ wdetHist = <<>>

\* No window under examination.
WinIdle == window = <<>> /\ verdict = "none"

\* No wait entered: main() has not called a wait_for_* yet.
NoWait == [wpc |-> "idle", now |-> 0, t0 |-> 0, timeout_s |-> 0, target |-> 0,
           result |-> "none", after |-> "none"]
WaitIdle == wait = NoWait

\* No controller constructed.
CtlIdle == ctl = <<>>

\* No disruptor constructed.
DisIdle == disr = <<>>

\* No telemetry disruptor and no data bus constructed.
MoreIdle == tele = <<>> /\ bus = <<>>

RestIdle == WaitIdle /\ CtlIdle /\ DisIdle /\ MoreIdle

\* A channel just constructed: no thread yet.
Init ==
  /\ SeqIdle /\ WinIdle /\ RestIdle
  /\ cfg \in {c \in Configs : ~c.ka /\ ~c.gate /\ ~c.cb}
  /\ Constructed
  /\ rx_thread = 0 /\ tx_thread = 0
  /\ pc = [p \in Procs |-> IF p = Main THEN "idle" ELSE "none"]

\* A channel constructed and started: its first two workers are at the top of
\* their loops (the state start() leaves, lines 159-174).
InitStarted ==
  /\ SeqIdle /\ WinIdle /\ RestIdle
  /\ Constructed
  /\ rx_thread = 1 /\ tx_thread = 1
  /\ pc = [p \in Procs |-> IF p = Main THEN "idle"
                           ELSE IF p[2] = 1 THEN "top" ELSE "none"]

Alive(p) == pc[p] \notin {"none", "dead"}
Goto(p, l) == pc' = [pc EXCEPT ![p] = l]

\* ------------------------------------------------------------- set_cmd
\* int(v): truncation toward zero, on values counted in halves.
TruncHalves(v) == IF v >= 0 THEN (v \div 2) * 2 ELSE -(((-v) \div 2) * 2)
\* nv = int(v) if typ == "int" else float(v)
Coerce(typ, v) == IF typ = "int" THEN TruncHalves(v) ELSE v
\* list(self.spec.cmd_names).index(k)
IndexOf(k) == CHOOSE i \in 1..Len(CmdNames) : CmdNames[i] = k

\* A comparison that takes every write for a change.
DiffersAlways(held, nv) == TRUE

\* line 213: if self._cmd_state[k] != nv
Differs(held, nv) == held # nv

\* The loop of set_cmd over updates.items(), run under _cmd_lock: the state it
\* leaves, the local flag changed, and whether it ended in KeyError.
RECURSIVE SetCmdLoop(_, _, _)
SetCmdLoop(st, u, chg) ==
  IF u = <<>> THEN [st |-> st, changed |-> chg, raised |-> FALSE]
  ELSE LET k == Head(u)[1]
           v == Head(u)[2]
       IN IF k \notin DOMAIN st
          THEN [st |-> st, changed |-> chg, raised |-> TRUE]
          ELSE LET nv == Coerce(CmdTypes[IndexOf(k)], v)
               IN IF Differs(st[k], nv)
                  THEN SetCmdLoop([st EXCEPT ![k] = nv], Tail(u), TRUE)
                  ELSE SetCmdLoop(st, Tail(u), chg)

\* The updates dicts a caller may pass: insertion-ordered, keys distinct.
Entries == (CmdFields \X Vals) \cup {<<UnknownName, 0>>}
UpdatesOfLen(n) ==
  {u \in [1..n -> Entries] : \A i, j \in 1..n : i # j => u[i][1] # u[j][1]}
Updates == UNION {UpdatesOfLen(n) : n \in 1..MaxUpd}

\* What a call asks for, stated without the code: the entries before the first
\* unknown name are the writes it applies.
HasUnknown(u) == \E i \in 1..Len(u) : u[i][1] \notin CmdFields
FirstUnknown(u) == CHOOSE i \in 1..Len(u) :
                     u[i][1] \notin CmdFields /\ \A j \in 1..(i-1) : u[j][1] \in CmdFields
AppliedLen(u) == IF HasUnknown(u) THEN FirstUnknown(u) - 1 ELSE Len(u)
Wanted(k, v) == IF k = "A" THEN TruncHalves(v) ELSE v
Redundant(u, st) == \A i \in 1..Len(u) : u[i][1] \in CmdFields /\ Wanted(u[i][1], u[i][2]) = st[u[i][1]]
KindOf(u, st) == IF HasUnknown(u) THEN "fault"
                 ELSE IF Redundant(u, st) THEN "redundant" ELSE "changing"
Requested(u, req) ==
  [k \in CmdFields |->
     IF \E i \in 1..AppliedLen(u) : u[i][1] = k
     THEN LET i == CHOOSE i \in 1..AppliedLen(u) : u[i][1] = k IN Wanted(k, u[i][2])
     ELSE req[k]]

\* set_cmd, lines 199-215: the locked loop.  A KeyError leaves the method at once;
\* otherwise "if changed" is still to run.
SetCmd(u) ==
  /\ pc[Main] = "idle"
  /\ Len(kinds) < MaxCmds
  /\ LET r == SetCmdLoop(cmd_state, u, FALSE)
     IN /\ cmd_state' = r.st
        /\ Goto(Main, IF ~r.raised /\ r.changed THEN "setdirty" ELSE "idle")
        /\ hist' = Append(hist, r.st)
  /\ ahist' = Append(ahist, IF HasUnknown(u) THEN ahist[Len(ahist)]
                                             ELSE Requested(u, ahist[Len(ahist)]))
  /\ kinds' = Append(kinds, KindOf(u, cmd_state))
  /\ lastReq' = Requested(u, lastReq)
  /\ UNCHANGED <<cfg, compVars, frame, cbRaised, chanVars, lifeVars, loc, latest_meas, dirty, txLocals, statVars,
                 wireVars, resyncOwed>>

\* set_cmd, lines 217-218: if changed: self._dirty = True
SetCmdDirty ==
  /\ pc[Main] = "setdirty"
  /\ dirty' = TRUE
  /\ Goto(Main, "idle")
  /\ UNCHANGED <<cfg, compVars, frame, cbRaised, chanVars, lifeVars, loc, latest_meas, cmdVars, txLocals, statVars,
                 wireVars, resyncOwed>>

\* ----------------------------------------------------------- start, stop
\* start(), lines 154-174.  Thread objects are numbered in creation order.
Start ==
  /\ pc[Main] = "idle"
  /\ IF rx_thread # 0 /\ Alive(<<"rx", rx_thread>>)
     THEN UNCHANGED vars
     ELSE /\ rx_thread < MaxGen
          /\ stop_evt' = FALSE
          /\ rx_thread' = rx_thread + 1
          /\ tx_thread' = rx_thread + 1
          /\ pc' = [pc EXCEPT ![<<"rx", rx_thread + 1>>] = "top",
                              ![<<"tx", rx_thread + 1>>] = "top"]
          /\ UNCHANGED <<cfg, compVars, frame, cbRaised, chanVars, loc, latest_meas, dirty, cmdVars, txLocals,
                         statVars, wireVars, resyncOwed>>

\* stop(), line 178: self._stop_evt.set(); _close_socket() follows.
Stop ==
  /\ pc[Main] = "idle"
  /\ stop_evt' = TRUE
  /\ Goto(Main, "cls1")
  /\ UNCHANGED <<cfg, compVars, frame, cbRaised, chanVars, rx_thread, tx_thread, loc, latest_meas, dirty, cmdVars,
                 txLocals, statVars, wireVars, resyncOwed>>

\* A thread that join(timeout=1.0) outlasts: it sleeps in the reconnect backoff or
\* sits in connect (up to 5 s each), or it is blocked in recv on a socket nobody closes.
Outlasts(w) ==
  \/ pc[w] = "conn"
  \/ pc[w] = "recv" /\ loc[w] \in open \ broken

\* stop(), lines 181-184: each join returns when the thread is dead or the timeout ran out.
JoinWorker(at, kind, handle, next) ==
  /\ pc[Main] = at
  /\ IF handle = 0 THEN TRUE
     ELSE ~Alive(<<kind, handle>>) \/ Outlasts(<<kind, handle>>)
  /\ Goto(Main, next)
  /\ UNCHANGED <<cfg, compVars, frame, cbRaised, chanVars, lifeVars, loc, latest_meas, dirty, cmdVars, txLocals,
                 statVars, wireVars, resyncOwed>>

JoinRx == JoinWorker("join_rx", "rx", rx_thread, "join_tx")
JoinTx == JoinWorker("join_tx", "tx", tx_thread, "idle")

\* ------------------------------------------------------ _close_socket
\* lines 228: sock = self._sock
CloseRead(p) ==
  /\ pc[p] = "cls1"
  /\ loc' = [loc EXCEPT ![p] = sock]
  /\ Goto(p, "cls2")
  /\ UNCHANGED <<cfg, compVars, frame, cbRaised, chanVars, lifeVars, latest_meas, dirty, cmdVars, txLocals,
                 statVars, wireVars, resyncOwed>>

\* lines 229-239: self._sock = None; shutdown and close of the local reference.
\* The caller is stop() for the main thread and _handle_disconnect for a worker.
CloseSocket(p) ==
  /\ pc[p] = "cls2"
  /\ sock' = 0
  /\ open' = open \ {loc[p]}
  /\ broken' = broken \ {loc[p]}
  /\ loc' = [loc EXCEPT ![p] = 0]
  /\ Goto(p, IF p = Main THEN "join_rx" ELSE "dty")
  /\ UNCHANGED <<cfg, compVars, frame, cbRaised, nsock, lifeVars, latest_meas, dirty, cmdVars, txLocals,
                 statVars, wireVars, resyncOwed>>

\* _handle_disconnect, line 366: self._dirty = True; the worker's loop goes on.
MarkDirty(w) ==
  /\ pc[w] = "dty"
  /\ dirty' = TRUE
  /\ resyncOwed' = TRUE
  /\ Goto(w, "top")
  /\ UNCHANGED <<cfg, compVars, frame, cbRaised, chanVars, lifeVars, loc, latest_meas, cmdVars, txLocals,
                 statVars, wireVars>>

\* ------------------------------------------- worker loops: the shared part
\* while not self._stop_evt.is_set(), lines 287 and 317 (after the TX sleep).
LoopTop(w) ==
  /\ pc[w] = "top"
  /\ Goto(w, IF stop_evt THEN "dead" ELSE "ens")
  /\ UNCHANGED <<cfg, compVars, frame, cbRaised, chanVars, lifeVars, loc, latest_meas, dirty, cmdVars, txLocals,
                 statVars, wireVars, resyncOwed>>

\* Where a loop goes once _ensure_connected returned True.
Body(w) == IF w[1] = "rx" THEN "rd" ELSE "tick"

\* _ensure_connected, lines 263-266.
EnsureConnected(w) ==
  /\ pc[w] = "ens"
  /\ Goto(w, IF sock # 0 THEN Body(w) ELSE "conn")
  /\ UNCHANGED <<cfg, compVars, frame, cbRaised, chanVars, lifeVars, loc, latest_meas, dirty, cmdVars, txLocals,
                 statVars, wireVars, resyncOwed>>

\* The loop of _ensure_connected, lines 267-280, one attempt per step: the stop
\* flag ends it, and with it the worker loop; _connect() returns a new socket; or it
\* returns None, and then without reconnect the loop ends, with it the thread
\* sleeps and tries again.
Connect(w) ==
  /\ pc[w] = "conn"
  /\ IF stop_evt
     THEN /\ Goto(w, "dead")
          /\ UNCHANGED <<open, nsock, loc>>
     ELSE \/ /\ nsock < MaxSock
             /\ nsock' = nsock + 1
             /\ open' = open \cup {nsock + 1}
             /\ loc' = [loc EXCEPT ![w] = nsock + 1]
             /\ Goto(w, "asg")
          \/ /\ Goto(w, IF cfg.rc THEN "conn" ELSE "dead")
             /\ UNCHANGED <<open, nsock, loc>>
  /\ UNCHANGED <<cfg, compVars, frame, cbRaised, sock, broken, lifeVars, latest_meas, dirty, cmdVars, txLocals,
                 statVars, wireVars, resyncOwed>>

\* lines 270-272: self._sock = sock; return True.
AssignSock(w) ==
  /\ pc[w] = "asg"
  /\ sock' = loc[w]
  /\ loc' = [loc EXCEPT ![w] = 0]
  /\ Goto(w, Body(w))
  /\ UNCHANGED <<cfg, compVars, frame, cbRaised, open, broken, nsock, lifeVars, latest_meas, dirty, cmdVars,
                 txLocals, statVars, wireVars, resyncOwed>>

\* ------------------------------------------------------------- _rx_loop
\* lines 291-293: the assert, outside the try, ends the thread when _sock is None;
\* when _sock is set to None only after the assert, _recv_exact(None, ...) raises
\* inside the try.  Otherwise the thread blocks in recv on the socket it read.
RxRead(i) ==
  LET w == <<"rx", i>> IN
  /\ pc[w] = "rd"
  /\ IF sock # 0
     THEN /\ loc' = [loc EXCEPT ![w] = sock]
          /\ Goto(w, "recv")
          /\ UNCHANGED rx_errors
     ELSE \/ /\ Goto(w, "dead")
             /\ UNCHANGED <<loc, rx_errors>>
          \/ /\ rx_errors' = rx_errors + 1
             /\ Goto(w, "cls1")
             /\ UNCHANGED loc
  /\ UNCHANGED <<cfg, compVars, frame, cbRaised, chanVars, lifeVars, latest_meas, dirty, cmdVars, txLocals,
                 tx_errors, wireVars, resyncOwed>>

\* The ready-to-send values the simulator's frames carry; a layout with no such
\* field is a frame whose lookup never reads 1.
FrameRts == IF cfg.gate THEN RtsVals ELSE {0}

\* lines 293-303: one whole frame arrives; it replaces the snapshot, and with a
\* listener configured the loop goes on to call it with that frame.
RxFrame(i, rts) ==
  LET w == <<"rx", i>> IN
  /\ pc[w] = "recv"
  /\ loc[w] \in open \ broken
  /\ latest_meas' = rts
  /\ loc' = [loc EXCEPT ![w] = 0]
  /\ IF cfg.cb
     THEN /\ frame' = [frame EXCEPT ![i] = rts]
          /\ Goto(w, "cb")
     ELSE /\ UNCHANGED frame
          /\ Goto(w, "top")
  /\ UNCHANGED <<cfg, compVars, cbRaised, chanVars, lifeVars, dirty, cmdVars, txLocals, statVars,
                 wireVars, resyncOwed>>

\* Where the loop goes when on_meas raised: a mutation that lets the exception
\* reach the outer handler of line 311.
OnMeasRaisedAsRxError == "cls1"

\* lines 306-309: the inner handler logs the exception and the loop goes on.
OnMeasRaisedNext == "top"

\* lines 304-305: self.on_meas(meas) returns, or raises an Exception.
OnMeas(i, raises) ==
  LET w == <<"rx", i>> IN
  /\ pc[w] = "cb"
  /\ IF raises
     THEN /\ cbRaised < MaxRaise
          /\ cbRaised' = cbRaised + 1
          /\ Goto(w, "cberr")
          /\ UNCHANGED frame
     ELSE /\ Goto(w, "top")
          /\ frame' = [frame EXCEPT ![i] = NoMeas]
          /\ UNCHANGED cbRaised
  /\ UNCHANGED <<cfg, compVars, chanVars, lifeVars, loc, latest_meas, dirty, cmdVars, txLocals,
                 statVars, wireVars, resyncOwed>>

\* lines 306-309: except Exception as cb_e: log; then the while loop's next turn.
OnMeasError(i) ==
  LET w == <<"rx", i>> IN
  /\ pc[w] = "cberr"
  /\ Goto(w, OnMeasRaisedNext)
  /\ frame' = [frame EXCEPT ![i] = NoMeas]
  /\ UNCHANGED <<cfg, compVars, cbRaised, chanVars, lifeVars, loc, latest_meas, dirty, cmdVars, txLocals,
                 statVars, wireVars, resyncOwed>>

\* lines 311-313: recv fails (peer closed or reset, or the socket was closed here);
\* _handle_disconnect follows.
RxFail(i) ==
  LET w == <<"rx", i>> IN
  /\ pc[w] = "recv"
  /\ loc[w] \notin open \ broken
  /\ rx_errors' = rx_errors + 1
  /\ loc' = [loc EXCEPT ![w] = 0]
  /\ Goto(w, "cls1")
  /\ UNCHANGED <<cfg, compVars, frame, cbRaised, chanVars, lifeVars, latest_meas, dirty, cmdVars, txLocals,
                 tx_errors, wireVars, resyncOwed>>

\* ------------------------------------------------------------- _tx_loop
\* lines 321-323, 340: should_send = self._dirty or should_keepalive; else sleep.
ShouldSend(i) == dirty \/ (cfg.ka /\ kaDue[i])

TxTick(i) ==
  LET w == <<"tx", i>> IN
  /\ pc[w] = "tick"
  /\ Goto(w, IF ShouldSend(i) THEN "gate" ELSE "top")
  /\ UNCHANGED <<cfg, compVars, frame, cbRaised, chanVars, lifeVars, loc, latest_meas, dirty, cmdVars, txLocals,
                 statVars, wireVars, resyncOwed>>

\* A gate that takes a missing ready-to-send value for ready.
OkToSendUnlessZero == ~cfg.gate \/ latest_meas # 0

\* _ok_to_send, lines 342-352: int(None) raises, which counts as not ready.
OkToSend == ~cfg.gate \/ latest_meas = 1

TxGate(i) ==
  LET w == <<"tx", i>> IN
  /\ pc[w] = "gate"
  /\ gateRts' = [gateRts EXCEPT ![i] = IF cfg.gate /\ OkToSend THEN latest_meas ELSE NoMeas]
  /\ Goto(w, IF OkToSend THEN "build" ELSE "top")
  /\ UNCHANGED <<cfg, compVars, frame, cbRaised, chanVars, lifeVars, loc, latest_meas, dirty, cmdVars, payload,
                 kaDue, builtVer, statVars, wireVars, resyncOwed>>

\* A payload packed with the two values in each other's slot.
BuildCmdPayloadSwapped == [k \in CmdFields |-> IF k = "A" THEN cmd_state["B"] ELSE cmd_state["A"]]

\* _build_cmd_payload, lines 354-357: the values are read under _cmd_lock.
BuildCmdPayload == cmd_state

TxBuild(i) ==
  LET w == <<"tx", i>> IN
  /\ pc[w] = "build"
  /\ payload' = [payload EXCEPT ![i] = BuildCmdPayload]
  /\ builtVer' = [builtVer EXCEPT ![i] = Len(hist)]
  /\ Goto(w, "send")
  /\ UNCHANGED <<cfg, compVars, frame, cbRaised, chanVars, lifeVars, loc, latest_meas, dirty, cmdVars, kaDue,
                 gateRts, statVars, wireVars, resyncOwed>>

\* lines 328-329: sendall returns.  On a connection the peer already dropped the
\* bytes may still be accepted by the local stack: the frame is lost, not refused.
TxSend(i) ==
  LET w == <<"tx", i>> IN
  /\ pc[w] = "send"
  /\ sock \in open
  /\ nsent < MaxFrames
  /\ wire' = <<payload[i]>>
  /\ nsent' = nsent + 1
  /\ resyncOwed' = FALSE
  /\ sentUnready' = (cfg.gate /\ latest_meas # 1)
  /\ Goto(w, "clr")
  /\ UNCHANGED <<cfg, compVars, frame, cbRaised, chanVars, lifeVars, loc, latest_meas, dirty, cmdVars, txLocals,
                 statVars>>

\* lines 328-329, 336-338: the assert fails or sendall raises; _handle_disconnect follows.
TxSendFail(i) ==
  LET w == <<"tx", i>> IN
  /\ pc[w] = "send"
  /\ sock \notin open \ broken
  /\ tx_errors' = tx_errors + 1
  /\ payload' = [payload EXCEPT ![i] = InitCmdState]
  /\ gateRts' = [gateRts EXCEPT ![i] = NoMeas]
  /\ builtVer' = [builtVer EXCEPT ![i] = 1]
  /\ Goto(w, "cls1")
  /\ UNCHANGED <<cfg, compVars, frame, cbRaised, chanVars, lifeVars, loc, latest_meas, dirty, cmdVars, kaDue,
                 rx_errors, wireVars, resyncOwed>>

\* A transmit loop that forgets to clear the flag.
DirtyKeptAfterSend == dirty

\* The flag the transmit loop leaves after a send, line 331.
DirtyAfterSend == FALSE

\* lines 331-334, 340: self._dirty = False; last_tx = now; then the sleep.
TxClear(i) ==
  LET w == <<"tx", i>> IN
  /\ pc[w] = "clr"
  /\ dirty' = DirtyAfterSend
  /\ kaDue' = [kaDue EXCEPT ![i] = FALSE]
  /\ payload' = [payload EXCEPT ![i] = InitCmdState]
  /\ gateRts' = [gateRts EXCEPT ![i] = NoMeas]
  /\ builtVer' = [builtVer EXCEPT ![i] = 1]
  /\ Goto(w, "top")
  /\ UNCHANGED <<cfg, compVars, frame, cbRaised, chanVars, lifeVars, loc, latest_meas, cmdVars, statVars, wireVars,
                 resyncOwed>>

\* line 322: the keepalive interval runs out while the thread lives.
Elapse(i) ==
  /\ cfg.ka
  /\ Alive(<<"tx", i>>)
  /\ ~kaDue[i]
  /\ kaDue' = [kaDue EXCEPT ![i] = TRUE]
  /\ UNCHANGED <<cfg, compVars, frame, cbRaised, chanVars, lifeVars, pc, loc, latest_meas, dirty, cmdVars, payload,
                 gateRts, builtVer, statVars, wireVars, resyncOwed>>

\* ------------------------------------------------------------ the simulator
\* The peer closes or resets a connection.
PeerBreak(s) ==
  /\ s \in open \ broken
  /\ broken' = broken \cup {s}
  /\ UNCHANGED <<cfg, compVars, frame, cbRaised, sock, open, nsock, lifeVars, pc, loc, latest_meas, dirty, cmdVars,
                 txLocals, statVars, wireVars, resyncOwed>>

\* ------------------------------------------------------------ specification
SetCmdStep ==
  \/ \E u \in Updates : SetCmd(u)
  \/ SetCmdDirty

LifeStep ==
  \/ Start
  \/ Stop
  \/ JoinRx
  \/ JoinTx
  \/ CloseRead(Main)
  \/ CloseSocket(Main)

WorkerStep ==
  \E w \in Workers :
    \/ LoopTop(w)
    \/ EnsureConnected(w)
    \/ Connect(w)
    \/ AssignSock(w)
    \/ CloseRead(w)
    \/ CloseSocket(w)
    \/ MarkDirty(w)

RxStep ==
  \E i \in Threads :
    \/ RxRead(i)
    \/ \E rts \in FrameRts : RxFrame(i, rts)
    \/ RxFail(i)

TxStep ==
  \E i \in Threads :
    \/ TxTick(i)
    \/ TxGate(i)
    \/ TxBuild(i)
    \/ TxSend(i)
    \/ TxSendFail(i)
    \/ TxClear(i)

PeerStep == \E s \in 1..MaxSock : PeerBreak(s)

\* A channel in service: constructed and started once, commanded while its two
\* workers run, with connects, socket errors and reconnects.
InitService ==
  /\ cfg \in {c \in Configs : ~c.ka /\ c.rc /\ ~c.cb}
  /\ InitStarted

NextService == SetCmdStep \/ WorkerStep \/ RxStep \/ TxStep \/ PeerStep

Spec == InitService /\ [][NextService]_vars

\* The send gate: a started channel with keepalive and a ready-to-send field, whose
\* sends are due to keepalive or to the dirty flag a disconnect leaves.
InitGate ==
  /\ cfg \in {c \in Configs : c.ka /\ c.gate /\ c.rc /\ ~c.cb}
  /\ InitStarted

KeepaliveStep == \E i \in Threads : Elapse(i)

NextGate == WorkerStep \/ RxStep \/ TxStep \/ KeepaliveStep \/ PeerStep

SpecGate == InitGate /\ [][NextGate]_vars

\* The lifecycle: start and stop called in any order, on a channel with no keepalive
\* and no ready-to-send field whose command state is left alone.
NextLife == LifeStep \/ WorkerStep \/ RxStep \/ TxStep \/ PeerStep

SpecLife == Init /\ [][NextLife]_vars

\* The telemetry listener: a started channel constructed with on_meas, whose
\* listener returns or raises on any frame.
InitListener ==
  /\ cfg \in {c \in Configs : ~c.ka /\ c.gate /\ c.rc /\ c.cb}
  /\ InitStarted

ListenerStep ==
  \E i \in Threads :
    \/ \E raises \in BOOLEAN : OnMeas(i, raises)
    \/ OnMeasError(i)

NextListener == WorkerStep \/ RxStep \/ ListenerStep \/ TxStep \/ PeerStep

SpecListener == InitListener /\ [][NextListener]_vars

\* A pushbutton pulse, pb_pulse of command_helpers.py (lines 34-42) and
\* pulse_cmd of run_islanding_dg_load_test.py (lines 44-51), on a started
\* channel with a ready-to-send field and no keepalive, on a connection that
\* suffers no error: set_cmd({name: 1}), a sleep, set_cmd({name: 0}).  The
\* sleep is any number of steps of the workers.
PulseField == "A"
\* The 1 of the pulse, in halves.
PulseOnVal == 2

\* line 37: channel.set_cmd({name: 1})
PulseOn ==
  /\ Len(kinds) = 0
  /\ SetCmd(<<<<PulseField, PulseOnVal>>>>)

\* lines 41-42: time.sleep(pulse_s); channel.set_cmd({name: 0})
PulseOff ==
  /\ Len(kinds) = 1
  /\ SetCmd(<<<<PulseField, 0>>>>)

InitPulse ==
  /\ cfg \in {c \in Configs : ~c.ka /\ c.gate /\ c.rc /\ ~c.cb}
  /\ InitStarted

NextPulse ==
  \/ PulseOn
  \/ PulseOff
  \/ SetCmdDirty
  \/ \E w \in Workers : LoopTop(w) \/ EnsureConnected(w) \/ Connect(w) \/ AssignSock(w)
  \/ \E i \in Threads : RxRead(i) \/ \E rts \in FrameRts : RxFrame(i, rts)
  \/ \E i \in Threads : TxTick(i) \/ TxGate(i) \/ TxBuild(i) \/ TxSend(i) \/ TxClear(i)

SpecPulse == InitPulse /\ [][NextPulse]_vars

\* ================================================== the test sequencer
\* main() of run_islanding_dg_load_test.py and the helpers it calls.  What the
\* plant reports through the data bus is an input of every read.

Channels == 1..4

DG_CLOSE_TRIES      == 5
OVL_SUSTAIN_COUNT   == 3
WDET_SUSTAIN_COUNT  == 3

\* What _get returns for a status field of a frame: the field, or None.
ReadVals == {Missing, 0, 1}

\* _as_int, lines 36-42: None stays None; the fields read are int32 in the
\* frame layouts, on which int() changes nothing.
AsInt(x) == IF x = Missing THEN Missing ELSE x

\* lines 57, 66 and 78: v is not None and int(v) == int(target).
Matches(v, target) == v # Missing /\ AsInt(v) = target

\* A mutation of the interlock test that takes a missing value for clear.
WdetIsClearOrMissing(v) == AsInt(v) \in {0, Missing}

\* wait_wdet_clear, lines 91-93: wdet == 0.
WdetIsClear(v) == AsInt(v) = 0

\* A mutation of the source test that takes anything but 0 for connected.
SourceUpUnlessZero(grid, brk) == AsInt(grid) # 0 \/ AsInt(brk) # 0

\* lines 456-459: grid_ok or dg_ok, each an equality with 1.
SourceUp(grid, brk) == AsInt(grid) = 1 \/ AsInt(brk) = 1

\* A mutation of the detection test that counts every sample but a 0.
WdetAssertedUnlessZero(v) == AsInt(v) # 0

\* line 481: wdet_i == 1.
WdetAsserted(v) == AsInt(v) = 1

\* line 447: overloaded_i == 1.
OvlAsserted(v) == AsInt(v) = 1

\* A mutation of the gates: a failed gate lets the run go on.
OnGateFailGoesOn(next) == next

\* Every failed gate raises RuntimeError (lines 318-420), handled at line 552.
OnGateFail(next) == "except"

\* The last n elements of a sequence.
LastN(q, n) == IF Len(q) <= n THEN q ELSE SubSeq(q, Len(q) - n + 1, Len(q))

PassGate(g, cmds, next) ==
  /\ passed' = Append(passed, g)
  /\ emitted' = emitted \cup cmds
  /\ spc' = next
  /\ UNCHANGED outcome

FailGate(cmds, next) ==
  /\ spc' = OnGateFail(next)
  /\ IF OnGateFail(next) = "except"
     THEN outcome' = "aborted" /\ UNCHANGED emitted
     ELSE UNCHANGED outcome /\ emitted' = emitted \cup cmds
  /\ UNCHANGED passed

\* line 255: ch1.start(); ch2.start(); ch3.start(); ch4.start(), one call a step.
StartChannel ==
  /\ spc = "start"
  /\ LET c == Cardinality(started) + 1 IN
       /\ started' = started \cup {c}
       /\ spc' = IF c = Cardinality(Channels) THEN "settle" ELSE "start"
  /\ UNCHANGED <<channelVars, winVars, restVars, stopped, outcome, gateVars, ensureVars, rampVars>>

\* lines 256-316: the settle sleep and the set-up of limits and controller; the
\* try statement is entered.
Settle ==
  /\ spc = "settle"
  /\ spc' = "remote"
  /\ UNCHANGED <<channelVars, winVars, restVars, started, stopped, outcome, gateVars, ensureVars,
                 rampVars>>

\* A polling wait (wait_for_remote_mode, wait_for_grid_pos, wait_for_breaker):
\* it returns True on a read that matches the target and False on timeout; main
\* then emits the commands up to the next wait, or raises.
WaitGate(stage, g, target, cmds, next) ==
  /\ spc = stage
  /\ \/ \E v \in ReadVals : Matches(v, target) /\ PassGate(g, cmds, next)
     \/ FailGate(cmds, next)
  /\ UNCHANGED <<channelVars, winVars, restVars, started, stopped, ensureVars, rampVars>>

\* wait_until_stable, lines 186-223: True once _stable_window_ok accepts the
\* window of the latest samples, False on timeout.
WaitStable(stage, g, cmds, next) ==
  /\ spc = stage
  /\ \/ PassGate(g, cmds, next)
     \/ FailGate(cmds, next)
  /\ UNCHANGED <<channelVars, winVars, restVars, started, stopped, ensureVars, rampVars>>

\* lines 317-327: remote mode, then the load defaults and REM_GRID = 1.
WaitRemote == WaitGate("remote", "remote", 1, {"load0", "grid1"}, "grid")

\* lines 325-343: grid breaker closed, then the BESS and DG defaults.
WaitGridClosed == WaitGate("grid", "grid_closed", 1, {"bess0", "chk", "dg0"}, "stable1")

\* lines 345-349.
StableTied == WaitStable("stable1", "stable_tied", {}, "wdet")

\* lines 353-375: the protection-clear interlock, then REM_BLOCKGEN = 1 and the
\* call of ensure_dg_closed.
WaitWdetClear ==
  /\ spc = "wdet"
  /\ \/ /\ \E v \in ReadVals : WdetIsClear(v)
        /\ PassGate("wdet_clear", {"blockgen"}, "ens_arm")
        /\ try_i' = 1
     \/ /\ FailGate({"blockgen"}, "ens_arm")
        /\ try_i' = IF OnGateFail("ens_arm") = "except" THEN try_i ELSE 1
  /\ UNCHANGED <<channelVars, winVars, restVars, started, stopped, attempts, wdetRead, brkRead,
                 rampVars>>

\* ensure_dg_closed, lines 114-115 and 129: the head of the for loop.  An attempt
\* begins by re-arming; past max_tries the function returns False and main raises
\* (line 380).
EnsureArm ==
  /\ spc = "ens_arm"
  /\ IF try_i > DG_CLOSE_TRIES
     THEN /\ FailGate({"block", "chk"}, "stable2")
          /\ UNCHANGED <<attempts, wdetRead>>
     ELSE /\ emitted' = emitted \cup {"arm"}
          /\ attempts' = attempts + 1
          /\ wdetRead' = Missing
          /\ spc' = "ens_wdet"
          /\ UNCHANGED <<passed, outcome>>
  /\ UNCHANGED <<channelVars, winVars, restVars, started, stopped, try_i, brkRead, rampVars>>

\* lines 118-122: wait_wdet_clear inside the attempt, one read a step; on timeout
\* the pulse is skipped and the next attempt begins.
EnsureWdet ==
  /\ spc = "ens_wdet"
  /\ \E v \in ReadVals :
       /\ wdetRead' = v
       /\ IF WdetIsClear(v)
          THEN spc' = "ens_pulse" /\ UNCHANGED try_i
          ELSE \/ spc' = "ens_wdet" /\ UNCHANGED try_i
               \/ spc' = "ens_arm" /\ try_i' = try_i + 1
  /\ UNCHANGED <<channelVars, winVars, restVars, started, stopped, outcome, gateVars, attempts,
                 brkRead, rampVars>>

\* lines 124-125: pulse_cmd on REM_RESETGEN.
EnsurePulse ==
  /\ spc = "ens_pulse"
  /\ emitted' = emitted \cup {"resetgen"}
  /\ brkRead' = Missing
  /\ spc' = "ens_brk"
  /\ UNCHANGED <<channelVars, winVars, restVars, started, stopped, outcome, passed, try_i,
                 attempts, wdetRead, rampVars>>

\* lines 127-128 and 376-388: wait_for_breaker on BRKGEN, one read a step; a read
\* of 1 returns True, and main enables the BESS; on timeout the next attempt begins.
EnsureBrk ==
  /\ spc = "ens_brk"
  /\ \E v \in ReadVals :
       /\ brkRead' = v
       /\ IF Matches(v, 1)
          THEN PassGate("dg_closed", {"block", "chk"}, "stable2") /\ UNCHANGED try_i
          ELSE /\ \/ spc' = "ens_brk" /\ UNCHANGED try_i
                  \/ spc' = "ens_arm" /\ try_i' = try_i + 1
               /\ UNCHANGED <<outcome, gateVars>>
  /\ UNCHANGED <<channelVars, winVars, restVars, started, stopped, attempts, wdetRead, rampVars>>

\* lines 390-395.
StableEnabled == WaitStable("stable2", "stable_enabled", {}, "reverify")

\* lines 399-402: BRKGEN re-verified, then the island command REM_GRID = 0.
Reverify == WaitGate("reverify", "dg_reverified", 1, {"island"}, "gridopen")

\* lines 403-405.
WaitGridOpen == WaitGate("gridopen", "grid_open", 0, {}, "stable3")

\* lines 407-412.
StableIsland == WaitStable("stable3", "stable_island", {}, "preramp")

\* lines 414-441: the interlock before the ramp, then the ramp loop's locals; the
\* locals of ensure_dg_closed are long gone.
PreRamp ==
  /\ spc = "preramp"
  /\ \E grid \in ReadVals, brk \in ReadVals, brk2 \in ReadVals :
       IF Matches(grid, 1) \/ Matches(brk, 1)
       THEN /\ PassGate("source_ok", {}, "ramp")
            /\ prev_brkgen' = AsInt(brk2)
       ELSE /\ FailGate({}, "ramp")
            /\ prev_brkgen' = IF OnGateFail("ramp") = "except" THEN prev_brkgen
                              ELSE AsInt(brk2)
  /\ try_i' = 0 /\ attempts' = 0 /\ wdetRead' = Missing /\ brkRead' = Missing
  /\ UNCHANGED <<channelVars, winVars, restVars, started, stopped, ramp_k, ovl_count, wdet_count,
                 trip_cause, tick, ovlHist, wdetHist>>

AllAsserted(q, n) == Len(q) = n /\ \A i \in 1..n : q[i] = 1

\* One iteration of the ramp loop, lines 443-546: the reads, the trip edge, the
\* both-sources-off stop, the sustained-detection stop, then the load command and,
\* with a CH3 frame on the bus, the controller command.
RampTick(grid, brk, ovl, wdet, tf3) ==
  LET ovl_c  == IF OvlAsserted(ovl) THEN ovl_count + 1 ELSE 0
      edge   == prev_brkgen = 1 /\ AsInt(brk) = 0
      cause  == IF edge /\ trip_cause = "none"
                THEN (IF ovl_c >= OVL_SUSTAIN_COUNT THEN "OVERLOAD" ELSE "UNKNOWN")
                ELSE trip_cause
      wdet_c == IF WdetAsserted(wdet) THEN wdet_count + 1 ELSE 0
      oh     == LastN(Append(ovlHist, ovl), OVL_SUSTAIN_COUNT)
      wh     == LastN(Append(wdetHist, wdet), WDET_SUSTAIN_COUNT)
      Seen(res, em) ==
                [edge |-> edge, sustained |-> AllAsserted(oh, OVL_SUSTAIN_COUNT),
                 bothOff |-> grid # 1 /\ brk # 1, result |-> res, emits |-> em]
      cmds   == {"ramp"} \cup (IF tf3 THEN {"ctrl"} ELSE {})
  IN
  /\ spc = "ramp"
  /\ (brk # Missing \/ ovl # Missing \/ wdet # Missing) => tf3
  /\ ovl_count' = ovl_c
  /\ trip_cause' = cause
  /\ prev_brkgen' = AsInt(brk)
  /\ ovlHist' = oh
  /\ IF ~SourceUp(grid, brk)
     THEN /\ spc' = "except" /\ outcome' = "aborted"
          /\ tick' = Seen(IF cause = "OVERLOAD" THEN "trip_overload"
                           ELSE IF cause = "UNKNOWN" THEN "trip_unknown" ELSE "no_edge",
                           {})
          /\ UNCHANGED <<wdet_count, wdetHist, ramp_k, emitted>>
     ELSE /\ wdet_count' = wdet_c
          /\ wdetHist' = wh
          /\ IF wdet_c >= WDET_SUSTAIN_COUNT
             THEN /\ spc' = "except" /\ outcome' = "aborted"
                  /\ tick' = Seen("wdet", {})
                  /\ UNCHANGED <<ramp_k, emitted>>
             ELSE /\ emitted' = emitted \cup cmds
                  /\ tick' = Seen("go", cmds)
                  /\ ramp_k' = ramp_k + 1
                  /\ spc' = IF ramp_k = RampSteps THEN "hold" ELSE "ramp"
                  /\ UNCHANGED outcome
  /\ UNCHANGED <<channelVars, winVars, restVars, started, stopped, passed, ensureVars>>

\* lines 547-550: the ramp is over; the last load is held, and the try ends.
Hold ==
  /\ spc = "hold"
  /\ spc' = "finally"
  /\ outcome' = "completed"
  /\ UNCHANGED <<channelVars, winVars, restVars, started, stopped, gateVars, ensureVars, rampVars>>

\* lines 552-564: except RuntimeError: the final snapshot is printed; raise.
Except ==
  /\ spc = "except"
  /\ spc' = "finally"
  /\ UNCHANGED <<channelVars, winVars, restVars, started, stopped, outcome, gateVars, ensureVars,
                 rampVars>>

\* lines 566-567: finally: ch1.stop(); ch2.stop(); ch3.stop(); ch4.stop().
StopChannel ==
  /\ spc = "finally"
  /\ LET c == Cardinality(stopped) + 1 IN
       /\ stopped' = stopped \cup {c}
       /\ spc' = IF c = Cardinality(Channels) THEN "done" ELSE "finally"
  /\ UNCHANGED <<channelVars, winVars, restVars, started, outcome, gateVars, ensureVars, rampVars>>

\* Whether a statement of main() is inside the try of line 316.
InTry(at) == at \notin {"start", "settle"}

\* An exception that is no gate's RuntimeError (the operator's interrupt of a sleep,
\* a start() that cannot create its thread, a KeyError out of set_cmd): inside the
\* try the finally clause runs, outside it the exception leaves main().
OtherError ==
  /\ spc \notin {"finally", "done"}
  /\ started # {}
  /\ outcome' = "error"
  /\ spc' = IF InTry(spc) THEN "finally" ELSE "done"
  /\ UNCHANGED <<channelVars, winVars, restVars, started, stopped, gateVars, ensureVars, rampVars>>

\* A run of the sequencer against a plant that may report anything.
InitSeq ==
  /\ cfg = [ka |-> FALSE, gate |-> TRUE, rc |-> TRUE, cb |-> TRUE]
  /\ Constructed
  /\ rx_thread = 0 /\ tx_thread = 0
  /\ pc = [p \in Procs |-> IF p = Main THEN "idle" ELSE "none"]
  /\ SeqIdle /\ WinIdle /\ RestIdle

GateStep ==
  \/ WaitRemote
  \/ WaitGridClosed
  \/ StableTied
  \/ WaitWdetClear
  \/ StableEnabled
  \/ Reverify
  \/ WaitGridOpen
  \/ StableIsland
  \/ PreRamp

EnsureStep ==
  \/ EnsureArm
  \/ EnsureWdet
  \/ EnsurePulse
  \/ EnsureBrk

RampStep ==
  \E grid \in ReadVals, brk \in ReadVals, ovl \in ReadVals, wdet \in ReadVals,
     tf3 \in BOOLEAN : RampTick(grid, brk, ovl, wdet, tf3)

RunStep ==
  \/ StartChannel
  \/ Settle
  \/ Hold
  \/ Except
  \/ StopChannel
  \/ OtherError

NextSeq == RunStep \/ GateStep \/ EnsureStep \/ RampStep

SpecSeq == InitSeq /\ [][NextSeq]_vars

\* ============================================== the stability predicate
\* _stable_window_ok of run_islanding_dg_load_test.py, on windows of samples
\* that hold one required analog signal (in hundredths; PGRID stands for the
\* eleven that STABILITY_LIMITS treats alike) and the two flags.

MinSamples == 10
MinPresent == 5

\* STABILITY_LIMITS["PGRID"], line 263, in hundredths.
SigSpan == 2
SigStep == 1

\* STABILITY_LIMITS["W_DETECTED"]["step"], line 276, is 0.5: a step s exceeds it
\* when 2 * s exceeds HalfStep2.
HalfStep2 == 1

SigVals  == {Missing, 0, 3}
FlagVals == {Missing, 0, 1}
Samples  == [sig : SigVals, ovl : FlagVals, wd : FlagVals]

Abs(x) == IF x < 0 THEN -x ELSE x
MaxOf(q) == CHOOSE x \in {q[i] : i \in 1..Len(q)} : \A j \in 1..Len(q) : q[j] <= x
MinOf(q) == CHOOSE x \in {q[i] : i \in 1..Len(q)} : \A j \in 1..Len(q) : q[j] >= x
Larger(a, b) == IF a >= b THEN a ELSE b

\* [s[name] for s in samples if s.get(name) is not None]
RECURSIVE NonMissing(_, _)
NonMissing(q, name) ==
  IF q = <<>> THEN <<>>
  ELSE (IF Head(q)[name] = Missing THEN <<>> ELSE <<Head(q)[name]>>)
       \o NonMissing(Tail(q), name)

\* _max_step, lines 136-144.
MaxStep(vals) ==
  IF Len(vals) < 2 THEN 0
  ELSE MaxOf([i \in 1..(Len(vals) - 1) |-> Abs(vals[i + 1] - vals[i])])

\* A mutation of the flag test that never finds a flag asserted.
FlagNeverTripped(vals) == FALSE

\* lines 157-163: ov and max(ov) != 0.
FlagTripped(vals) == vals # <<>> /\ MaxOf(vals) # 0

\* _stable_window_ok, lines 146-184.
StableWindowOk(samples) ==
  LET sig == NonMissing(samples, "sig")
      ov  == NonMissing(samples, "ovl")
      wd  == NonMissing(samples, "wd")
  IN
  IF Len(samples) < MinSamples THEN FALSE
  ELSE IF Len(sig) < Larger(MinPresent, Len(samples) \div 2) THEN FALSE
  ELSE IF FlagTripped(ov) THEN FALSE
  ELSE IF FlagTripped(wd) THEN FALSE
  ELSE IF sig # <<>> /\ (MaxOf(sig) - MinOf(sig) > SigSpan \/ MaxStep(sig) > SigStep)
       THEN FALSE
  ELSE IF wd # <<>> /\ 2 * MaxStep(wd) > HalfStep2 THEN FALSE
  ELSE TRUE

\* The windows examined: n samples equal to one sample, but for the samples at the
\* marked places, which equal another; the marked places are none, one place, or a
\* leading stretch.
WindowLens == (MinSamples - 2)..MaxWindow
Marks(n) == {{}} \cup {{p} : p \in 1..n} \cup {1..p : p \in 2..n}
Windows(lens) ==
  UNION {{[i \in 1..n |-> IF i \in S THEN alt ELSE base] :
            base \in Samples, alt \in Samples, S \in Marks(n)} : n \in lens}

\* wait_until_stable, line 218: _stable_window_ok(list(q), limits=limits).
Evaluate ==
  /\ verdict = "none"
  /\ verdict' = IF StableWindowOk(window) THEN "ok" ELSE "no"
  /\ UNCHANGED <<channelVars, seqVars, restVars, window>>

InitStable ==
  /\ cfg = [ka |-> FALSE, gate |-> TRUE, rc |-> TRUE, cb |-> TRUE]
  /\ Constructed
  /\ rx_thread = 0 /\ tx_thread = 0
  /\ pc = [p \in Procs |-> IF p = Main THEN "idle" ELSE "none"]
  /\ SeqIdle /\ RestIdle
  /\ window \in Windows(WindowLens)
  /\ verdict = "none"

NextStable == Evaluate

SpecStable == InitStable /\ [][NextStable]_vars

\* ================================================ the sequencer's waits
\* wait_for_remote_mode, wait_for_breaker and wait_for_grid_pos are the same
\* loop over different fields.  Time is counted in halves of the polling
\* period, so that a timeout need not be a whole number of periods.  Reading
\* the bus takes no time; time.sleep(0.05) takes one period.
PollTick == 2
MaxTimeout == 7
Timeouts == 1..MaxTimeout

\* while time.time() - t0 < timeout_s
ExpiredLate(now, t0, timeout_s) == ~(now - t0 < timeout_s + 2 * PollTick)
Expired(now, t0, timeout_s) == ~(now - t0 < timeout_s)

\* The while condition, lines 55, 64 and 77.
WaitTest ==
  /\ wait.wpc = "test"
  /\ wait' = IF Expired(wait.now, wait.t0, wait.timeout_s)
             THEN [wait EXCEPT !.wpc = "ret", !.result = "false"]
             ELSE [wait EXCEPT !.wpc = "read"]
  /\ UNCHANGED <<channelVars, seqVars, winVars, ctl, disr, moreVars>>

\* v = _get(...); if v is not None and int(v) == int(target): return True
WaitRead(v) ==
  /\ wait.wpc = "read"
  /\ wait' = IF Matches(v, wait.target)
             THEN [wait EXCEPT !.wpc = "ret", !.result = "true"]
             ELSE [wait EXCEPT !.wpc = "sleep"]
  /\ UNCHANGED <<channelVars, seqVars, winVars, ctl, disr, moreVars>>

\* time.sleep(0.05)
WaitSleep ==
  /\ wait.wpc = "sleep"
  /\ wait' = [wait EXCEPT !.wpc = "test", !.now = @ + PollTick]
  /\ UNCHANGED <<channelVars, seqVars, winVars, ctl, disr, moreVars>>

\* main(): if not wait_for_...(...): raise RuntimeError(...), else the next
\* statement of the stage (lines 317-318, 325-327, 399-400, 403-405).
AfterWait ==
  /\ wait.wpc = "ret"
  /\ wait' = [wait EXCEPT !.wpc = "done",
                          !.after = IF wait.result = "true" THEN "next" ELSE "raise"]
  /\ UNCHANGED <<channelVars, seqVars, winVars, ctl, disr, moreVars>>

\* A wait just entered (t0 = time.time()), for any timeout and either target.
InitWait ==
  /\ cfg = [ka |-> FALSE, gate |-> TRUE, rc |-> TRUE, cb |-> TRUE]
  /\ Constructed
  /\ rx_thread = 0 /\ tx_thread = 0
  /\ pc = [p \in Procs |-> IF p = Main THEN "idle" ELSE "none"]
  /\ SeqIdle /\ WinIdle /\ CtlIdle /\ DisIdle /\ MoreIdle
  /\ \E to \in Timeouts, tg \in {0, 1} :
       wait = [NoWait EXCEPT !.wpc = "test", !.timeout_s = to, !.target = tg]

NextWait == WaitTest \/ (\E v \in ReadVals : WaitRead(v)) \/ WaitSleep \/ AfterWait

SpecWait == InitWait /\ [][NextWait]_vars

\* ============================================ the supervisory controller
\* One DGController.  Time is counted in update periods (dt = 0.05 s) and
\* update() is called once per period with now = time.time().  Speed, loading
\* and voltage are counted in hundredths of a per-unit, REM_Wref in hundredths
\* and REM_PREF in twentieths of 0.1 (0.05), so that every term of the setpoint
\* synthesis below is a whole number on the inputs drawn.
Dt == 1
MaxNow == 5

\* DGControllerConfig, lines 122-176, as a configuration on that grid.  The
\* thresholds and gains are the defaults; the limits of REM_PREF are set
\* closer to the base and the rates higher than the defaults, so that a run
\* of MaxNow updates reaches the limits, and the three durations are counted
\* in update periods.
\* Wref_base = 1.00, Wref_min = 0.98, Wref_max = 1.02
Wref_base == 100
Wref_min == 98
Wref_max == 102
\* Pref_base = 0.0, Pref_min = -0.40, Pref_max = 0.20
Pref_base == 0
Pref_min == -8
Pref_max == 4
\* WPU_target = 1.00, WPU_deadband = 0.01
WPU_target == 100
WPU_deadband == 1
\* SMACH_limit = 1.50, SMACH_margin = 0.10
SMACH_limit == 150
SMACH_margin == 10
\* Vmin_pu = 0.92, Vsoft_pu = 0.96
Vmin_pu == 92
Vsoft_pu == 96
\* wref_rate_up = 0.2 and wref_rate_down = 0.4 per second: 0.01 and 0.02 per update
wref_rate_up == 1
wref_rate_down == 2
\* pref_rate_up = 1.0 and pref_rate_down = 2.0 per second: 0.05 and 0.10 per update
pref_rate_up == 1
pref_rate_down == 2
\* max_stale_s = 0.10, overload_hard_after_s = 0.10, reset_pulse_s = 0.10
max_stale_s == 2
overload_hard_after_s == 2
reset_pulse_s == 2
\* overload_soft_drop = 0.30
overload_soft_drop == 6
\* cfg.meas_lpf_tau = 0: LowPass.step takes its tau <= 0 branch.
meas_lpf_tau == 0

NoTs == -1
NoOverride == -1
\* DGMeasurements, the fields update() reads: loading far from the limit, in
\* the soft zone and over the limit; speed on target, low and high; voltage
\* sound, in the soft zone and under the minimum.
SmachVals == {Missing, 130, 145, 155}
WpuVals == {Missing, 100, 80, 105}
VpuVals == {Missing, 100, 94, 90}
OvlVals == {Missing, 0, 1}

Smaller(a, b) == IF a <= b THEN a ELSE b

\* clamp, lines 34-35.
NoClamp(x, lo, hi) == x
Clamp(x, lo, hi) == Larger(lo, Smaller(hi, x))

\* LowPass.step, lines 46-55.
LowPassStep(y, x) ==
  IF y = Missing THEN x
  ELSE IF meas_lpf_tau <= 0 THEN x
  ELSE (meas_lpf_tau * y + Dt * x) \div (meas_lpf_tau + Dt)

\* RateLimiter.step, lines 64-76, with y set (it is from __init__ on).
NoRateLimit(y, x, up, down) == x
RateStep(y, x, up, down) ==
  LET dy == x - y
  IN IF dy > up * Dt THEN y + up * Dt
     ELSE IF dy < -(down * Dt) THEN y - down * Dt
     ELSE y + dy

\* _get_filtered, lines 320-325: [the filter's new y, the value returned].
GetFiltered(y, x) ==
  IF x = Missing THEN [y |-> y, out |-> Missing]
  ELSE [y |-> LowPassStep(y, x), out |-> LowPassStep(y, x)]

\* _pref_from_smach, lines 327-347: -0.5 - 2.0 * exceed, -0.2 * closeness.
PrefFromSmach(smach) ==
  IF smach >= SMACH_limit THEN -10 - (2 * (smach - SMACH_limit)) \div 5
  ELSE IF smach >= SMACH_limit - SMACH_margin
    THEN -((4 * (smach - (SMACH_limit - SMACH_margin))) \div SMACH_margin)
  ELSE 0

\* _pref_from_wpu, lines 349-356, with k_pref_wpu = 2.0.
PrefFromWpu(wpu) ==
  LET e == WPU_target - wpu
  IN IF Abs(e) < WPU_deadband THEN 0 ELSE (2 * e) \div 5

\* _wref_from_wpu, lines 358-366, with k_wref_wpu = 0.2.
WrefFromWpu(wpu) ==
  LET e == WPU_target - wpu
  IN IF Abs(e) < WPU_deadband THEN 0 ELSE e \div 5

\* _apply_voltage_guard, lines 368-383.
ApplyVoltageGuard(pref_cmd, vpu) ==
  IF vpu < Vmin_pu THEN Smaller(pref_cmd, Pref_base)
  ELSE IF vpu < Vsoft_pu /\ pref_cmd > Pref_base
    THEN Pref_base + ((pref_cmd - Pref_base) * Clamp(vpu - Vmin_pu, 0, Vsoft_pu - Vmin_pu))
                        \div (Vsoft_pu - Vmin_pu)
  ELSE pref_cmd

\* (now - self._overload_start_ts) >= self.cfg.overload_hard_after_s, line 415.
SustainedAtOnce(now, start) == TRUE
Sustained(now, start) == now - start >= overload_hard_after_s

\* request_reset, lines 303-307: the new _reset_until_ts.
RearmedUntil(until, now) == Larger(until, now + reset_pulse_s)

\* _handle_overload_logic, lines 385-426: what it returns and the two
\* timestamps it leaves.
HandleOverloadLogic(overloaded, pref_cmd, now, start, until) ==
  LET reset0 == IF now < until THEN 1 ELSE 0
      start1 == IF start = NoTs THEN now ELSE start
      until1 == RearmedUntil(until, now)
  IN IF overloaded = Missing
       THEN [block |-> 1, reset |-> reset0, pref |-> pref_cmd,
             start |-> start, until |-> until]
     ELSE IF overloaded # 0
       THEN IF Sustained(now, start1)
              THEN [block |-> 0, reset |-> IF now < until1 THEN 1 ELSE reset0,
                    pref |-> pref_cmd - Abs(overload_soft_drop),
                    start |-> start1, until |-> until1]
              ELSE [block |-> 1, reset |-> reset0,
                    pref |-> pref_cmd - Abs(overload_soft_drop),
                    start |-> start1, until |-> until]
     ELSE [block |-> 1, reset |-> reset0, pref |-> pref_cmd,
           start |-> NoTs, until |-> until]

\* _measurements_present, lines 311-313.
MeasurementsPresent(m) ==
  m.SMACH # Missing \/ m.WPU # Missing \/ m.OVERLOADED # Missing

\* _is_stale, lines 315-318.
IsStale(now, last_meas_ts) ==
  IF last_meas_ts = NoTs THEN FALSE ELSE now - last_meas_ts > max_stale_s

\* What a step leaves of the filters and of the overload timer.
Inner(c) == <<c.f_wpu, c.f_smach, c.f_vpu, c.overload_start_ts>>
NoInner == <<>>

\* _hold_safe_base, lines 438-450; time.time() is the clock update() was
\* given.
HoldSafeBase(c) ==
  LET wref_out == RateStep(c.rl_wref, Wref_base, wref_rate_up, wref_rate_down)
      pref_out == RateStep(c.rl_pref, Pref_base, pref_rate_up, pref_rate_down)
  IN [c EXCEPT !.rl_wref = wref_out, !.rl_pref = pref_out,
               !.last_cmd = [REM_BLOCKGEN |-> 1, REM_Wref |-> wref_out,
                             REM_PREF |-> pref_out,
                             REM_RESETGEN |-> IF c.now < c.reset_until_ts THEN 1 ELSE 0],
               !.kind = "disabled", !.held = NoInner, !.ovl_drop = 0]

\* The REM_RESETGEN _hold_last leaves in the held command, lines 433-435.
HeldResetKept(c) == c.last_cmd.REM_RESETGEN
HeldReset(c) == IF c.now >= c.reset_until_ts THEN 0 ELSE c.last_cmd.REM_RESETGEN

\* _hold_last, lines 428-436.
HoldLast(c) ==
  [c EXCEPT !.rl_wref = c.last_cmd.REM_Wref, !.rl_pref = c.last_cmd.REM_PREF,
            !.last_cmd.REM_RESETGEN = HeldReset(c),
            !.kind = "hold", !.held = Inner(c), !.ovl_drop = 0]

\* update, lines 254-301: the step on data that is not stale.
NormalStep(c, m) ==
  LET fw == GetFiltered(c.f_wpu, m.WPU)
      fs == GetFiltered(c.f_smach, m.SMACH)
      fv == GetFiltered(c.f_vpu, m.GENRMSPU)
      pref1 == Pref_base + (IF fs.out # Missing THEN PrefFromSmach(fs.out) ELSE 0)
      pref2 == pref1 + (IF fw.out # Missing THEN PrefFromWpu(fw.out) ELSE 0)
      wref2 == Wref_base + (IF fw.out # Missing THEN WrefFromWpu(fw.out) ELSE 0)
      pref3 == IF fv.out # Missing THEN ApplyVoltageGuard(pref2, fv.out) ELSE pref2
      o == HandleOverloadLogic(m.OVERLOADED, pref3, c.now, c.overload_start_ts,
                               c.reset_until_ts)
      block_cmd == IF c.remote_block_override # NoOverride
                   THEN c.remote_block_override ELSE o.block
      wref_out == RateStep(c.rl_wref, Clamp(wref2, Wref_min, Wref_max),
                           wref_rate_up, wref_rate_down)
      pref_out == RateStep(c.rl_pref, Clamp(o.pref, Pref_min, Pref_max),
                           pref_rate_up, pref_rate_down)
  IN [c EXCEPT !.f_wpu = fw.y, !.f_smach = fs.y, !.f_vpu = fv.y,
               !.overload_start_ts = o.start, !.reset_until_ts = o.until,
               !.rl_wref = wref_out, !.rl_pref = pref_out,
               !.last_cmd = [REM_BLOCKGEN |-> block_cmd, REM_Wref |-> wref_out,
                             REM_PREF |-> pref_out, REM_RESETGEN |-> o.reset],
               !.kind = "normal", !.held = NoInner, !.ovl_drop = pref3 - o.pref,
               !.ovl_since = IF m.OVERLOADED = Missing THEN @
                             ELSE IF m.OVERLOADED = 0 THEN NoTs
                             ELSE IF @ = NoTs THEN c.now ELSE @,
               !.trip_at = IF o.block = 0 /\ @ = NoTs THEN c.now ELSE @]

\* __init__, lines 193-219, at time 0; no step taken yet.
NoInput == [SMACH |-> Missing, WPU |-> Missing, GENRMSPU |-> Missing,
            OVERLOADED |-> Missing]
CtlNew ==
  [enabled |-> TRUE, remote_block_override |-> NoOverride,
   f_wpu |-> Missing, f_smach |-> Missing, f_vpu |-> Missing,
   rl_wref |-> Wref_base, rl_pref |-> Pref_base,
   last_meas_ts |-> NoTs,
   last_cmd |-> [REM_BLOCKGEN |-> 1, REM_Wref |-> Wref_base, REM_PREF |-> Pref_base,
                 REM_RESETGEN |-> 0],
   overload_start_ts |-> NoTs, reset_until_ts |-> 0,
   now |-> 0,
   \* history: the kind and the input of the last step, the command before it,
   \* what a hold step found, what the overload logic took off the target,
   \* since when it has read the flag asserted, the last request, the first
   \* trip, the last update that carried a usable measurement, and whether the
   \* client has touched the controller since the last update
   kind |-> "none", inp |-> NoInput,
   prev |-> [REM_BLOCKGEN |-> 1, REM_Wref |-> Wref_base, REM_PREF |-> Pref_base,
             REM_RESETGEN |-> 0],
   held |-> NoInner, ovl_drop |-> 0, ovl_since |-> NoTs, req_at |-> NoTs,
   trip_at |-> NoTs, usable_at |-> NoTs, fresh |-> FALSE]

\* update(meas, dt, now), lines 223-301, one period after the last one.
Update(m) ==
  /\ ctl.now < MaxNow
  /\ LET c0 == [ctl EXCEPT !.now = @ + Dt, !.prev = ctl.last_cmd, !.inp = m,
                           !.fresh = TRUE,
                           !.usable_at = IF MeasurementsPresent(m) THEN ctl.now + Dt
                                         ELSE @]
         c1 == IF MeasurementsPresent(m) THEN [c0 EXCEPT !.last_meas_ts = c0.now]
               ELSE c0
     IN ctl' = IF ~ctl.enabled THEN HoldSafeBase(c0)
               ELSE IF IsStale(c1.now, c1.last_meas_ts) THEN HoldLast(c1)
               ELSE NormalStep(c1, m)
  /\ UNCHANGED <<channelVars, seqVars, winVars, wait, disr, moreVars>>

\* request_reset(), lines 303-307, between two updates.
RequestReset ==
  /\ ctl.now < MaxNow
  /\ ctl.req_at # ctl.now
  /\ ctl' = [ctl EXCEPT !.reset_until_ts = RearmedUntil(@, ctl.now),
                        !.req_at = ctl.now, !.fresh = FALSE]
  /\ UNCHANGED <<channelVars, seqVars, winVars, wait, disr, moreVars>>

\* ctrl.enabled = b, line 218.
SetEnabled(b) ==
  /\ ctl.now < MaxNow
  /\ ctl.enabled # b
  /\ ctl' = [ctl EXCEPT !.enabled = b, !.fresh = FALSE]
  /\ UNCHANGED <<channelVars, seqVars, winVars, wait, disr, moreVars>>

\* ctrl.remote_block_override = o, line 219.
SetOverride(o) ==
  /\ ctl.now < MaxNow
  /\ ctl.remote_block_override # o
  /\ ctl' = [ctl EXCEPT !.remote_block_override = o, !.fresh = FALSE]
  /\ UNCHANGED <<channelVars, seqVars, winVars, wait, disr, moreVars>>

InitCtl ==
  /\ cfg = [ka |-> FALSE, gate |-> TRUE, rc |-> TRUE, cb |-> TRUE]
  /\ Constructed
  /\ rx_thread = 0 /\ tx_thread = 0
  /\ pc = [p \in Procs |-> IF p = Main THEN "idle" ELSE "none"]
  /\ SeqIdle /\ WinIdle /\ WaitIdle /\ DisIdle /\ MoreIdle
  /\ ctl = CtlNew

\* The inputs of the setpoint synthesis: nothing at all, every signal at one
\* of its extremes, or one signal in its soft zone.
SetpointMeas ==
  {NoInput}
  \cup [SMACH : {130, 155}, WPU : {100, 80, 105}, GENRMSPU : {100, 90},
        OVERLOADED : {0, 1}]
  \cup {[SMACH |-> 145, WPU |-> 100, GENRMSPU |-> 100, OVERLOADED |-> 0],
        [SMACH |-> 130, WPU |-> 80, GENRMSPU |-> 94, OVERLOADED |-> 0]}

\* The controller under any loading, speed, voltage and overload flag, switched
\* on and off by its client.
NextCtl == (\E m \in SetpointMeas : Update(m)) \/ (\E b \in BOOLEAN : SetEnabled(b))

SpecCtl == InitCtl /\ [][NextCtl]_vars

\* The inputs of the overload and reset logic: any overload flag, with or
\* without a voltage reading (which alone does not make a measurement usable).
OverloadMeas ==
  [SMACH : {Missing}, WPU : {Missing}, GENRMSPU : {Missing, 100},
   OVERLOADED : OvlVals]

ClientStep ==
  \/ RequestReset
  \/ \E b \in BOOLEAN : SetEnabled(b)
  \/ \E o \in {NoOverride, 0, 1} : SetOverride(o)

\* The controller under any overload flag, with its client requesting resets,
\* switching it on and off and overriding the enable command.
NextOvl == (\E m \in OverloadMeas : Update(m)) \/ ClientStep

SpecOvl == InitCtl /\ [][NextOvl]_vars

\* ===================================== the disruption layer, command path
\* One ChannelDisruptor and the command path of one channel.  Probabilities
\* are counted in hundredths, delays in whole units.
MaxEmits == 3

NoAutoCfg == [set |-> FALSE, enabled |-> FALSE, block_all |-> FALSE, drop_prob |-> 0,
              fixed_delay_s |-> 0, jitter_s |-> 0]
\* AutonomyDegradationConfig, lines 39-50, as a caller may fill it in.
AutoCfgs ==
  [set : {TRUE}, enabled : BOOLEAN, block_all : BOOLEAN, drop_prob : {0, 50, 150},
   fixed_delay_s : {0, 1}, jitter_s : {0, 1}]
\* self._rng.random(), in [0, 1)
Randoms == {0, 50, 99}

\* __init__, lines 63-82: no configuration, nothing delivered or under way.
\* emits and leaked are history: the emit_cmd calls so far, and the writes
\* to the sink that came from calls made while block_all was set.
DisNew == [auto_cfg |-> NoAutoCfg, delayed |-> <<>>, sunk |-> 0, emits |-> 0, leaked |-> 0]

\* set_autonomy_degraded, lines 99-108.
SetAutonomyDegraded(c) ==
  /\ disr.emits < MaxEmits
  /\ disr' = [disr EXCEPT !.auto_cfg =
                [c EXCEPT !.drop_prob = IF @ < 0 THEN 0 ELSE IF @ > 100 THEN 100 ELSE @,
                          !.fixed_delay_s = Larger(0, @), !.jitter_s = Larger(0, @)]]
  /\ UNCHANGED <<channelVars, seqVars, winVars, wait, ctl, moreVars>>

\* clear_channel, lines 110-115.
ClearChannel ==
  /\ disr.emits < MaxEmits
  /\ disr.auto_cfg.set
  /\ disr' = [disr EXCEPT !.auto_cfg = NoAutoCfg]
  /\ UNCHANGED <<channelVars, seqVars, winVars, wait, ctl, moreVars>>

\* if not cfg.enabled, line 194: the command goes straight to the sink.
PassesUntouched(c) == ~c.enabled

\* emit_cmd, lines 190-221; r is the random draw of line 203 and u the jitter
\* drawn at line 210.  The configuration is the channel's, or
\* AutonomyDegradationConfig(enabled=False) when it has none.
EmitCmd(r, u) ==
  /\ disr.emits < MaxEmits
  /\ LET c == disr.auto_cfg
         blocked == c.set /\ c.block_all
         d0 == c.fixed_delay_s
         delay == IF c.jitter_s > 0 THEN Larger(0, d0 + u * c.jitter_s) ELSE d0
         sent == [disr EXCEPT !.emits = @ + 1, !.sunk = @ + 1,
                              !.leaked = IF blocked THEN @ + 1 ELSE @]
     IN disr' = IF PassesUntouched(c) THEN sent
                ELSE IF c.block_all THEN [disr EXCEPT !.emits = @ + 1]
                ELSE IF c.drop_prob > 0 /\ r < c.drop_prob THEN [disr EXCEPT !.emits = @ + 1]
                ELSE IF delay <= 0 THEN sent
                ELSE [disr EXCEPT !.emits = @ + 1, !.delayed = Append(@, blocked)]
  /\ UNCHANGED <<channelVars, seqVars, winVars, wait, ctl, moreVars>>

\* _delayed_cmd_delivery, lines 223-225: one of the sleeping threads wakes.
DelayedCmdDelivery(i) ==
  /\ i \in 1..Len(disr.delayed)
  /\ disr' = [disr EXCEPT !.delayed = SubSeq(@, 1, i - 1) \o SubSeq(@, i + 1, Len(@)),
                          !.sunk = @ + 1,
                          !.leaked = IF disr.delayed[i] THEN @ + 1 ELSE @]
  /\ UNCHANGED <<channelVars, seqVars, winVars, wait, ctl, moreVars>>

InitDis ==
  /\ cfg = [ka |-> FALSE, gate |-> TRUE, rc |-> TRUE, cb |-> TRUE]
  /\ Constructed
  /\ rx_thread = 0 /\ tx_thread = 0
  /\ pc = [p \in Procs |-> IF p = Main THEN "idle" ELSE "none"]
  /\ SeqIdle /\ WinIdle /\ WaitIdle /\ CtlIdle /\ MoreIdle
  /\ disr = DisNew

NextDis ==
  \/ \E c \in AutoCfgs : SetAutonomyDegraded(c)
  \/ ClearChannel
  \/ \E r \in Randoms, u \in {-1, 0, 1} : EmitCmd(r, u)
  \/ \E i \in 1..MaxEmits : DelayedCmdDelivery(i)

SpecDis == InitDis /\ [][NextDis]_vars

\* One ChannelDisruptor and the telemetry path of one channel.  A frame is one
\* numeric field (cfg.keys is None: every key is degraded alike); frames are
\* numbered in arrival order.
MaxMeas == 2

NoFrame == [id |-> 0, val |-> 0]
\* The field's value in the frames the channel decodes.
MeasVals == {10, 20}

NoDataCfg == [set |-> FALSE, enabled |-> FALSE, drop_prob |-> 0, freeze |-> FALSE,
              fixed_delay_s |-> 0, jitter_s |-> 0, add_noise |-> FALSE, noise_std |-> 0]
\* DataDegradationConfig, lines 16-36, as a caller may fill it in.
\* Noise is asked for with a deviation or not at all; a delay is fixed or jitter.
DataCfgs ==
  {c \in [set : {TRUE}, enabled : BOOLEAN, drop_prob : {0, 50, 150}, freeze : BOOLEAN,
          fixed_delay_s : {0, 1}, jitter_s : {0, 1}, add_noise : BOOLEAN,
          noise_std : {0, 1}] :
     /\ c.add_noise = (c.noise_std > 0)
     /\ ~(c.fixed_delay_s > 0 /\ c.jitter_s > 0)}
\* self._rng.gauss(0.0, 1.0), in units of noise_std
Gauss == {-1, 1}

\* __init__, lines 63-82.  calls, captured and the flag late of a delivery are
\* history: per on_meas call the frame, what the configuration in force asked
\* for and what became of the frame; the frame _last_meas held when freezing
\* was switched on.
TelNew == [data_cfg |-> NoDataCfg, last_meas |-> NoFrame, delayed |-> {}, sink |-> <<>>,
           calls |-> <<>>, captured |-> NoFrame]

Freezing(c) == c.enabled /\ c.freeze

\* set_data_degraded, lines 87-97.
SetDataDegraded(c) ==
  /\ Len(tele.calls) < MaxMeas
  /\ tele' = [tele EXCEPT
       !.data_cfg = [c EXCEPT !.drop_prob = IF @ < 0 THEN 0 ELSE IF @ > 100 THEN 100 ELSE @,
                              !.fixed_delay_s = Larger(0, @), !.jitter_s = Larger(0, @),
                              !.noise_std = Larger(0, @)],
       !.captured = IF ~Freezing(c) THEN NoFrame
                    ELSE IF Freezing(tele.data_cfg) THEN @ ELSE tele.last_meas]
  /\ UNCHANGED <<channelVars, seqVars, winVars, wait, ctl, disr, bus>>

\* A clear that also cancels the deliveries under way.
ClearDataCancelling ==
  /\ Len(tele.calls) < MaxMeas
  /\ tele.data_cfg.set
  /\ tele' = [tele EXCEPT !.data_cfg = NoDataCfg, !.captured = NoFrame, !.delayed = {}]
  /\ UNCHANGED <<channelVars, seqVars, winVars, wait, ctl, disr, bus>>

\* clear_channel and clear_all, lines 110-122: the configuration is popped.
ClearData ==
  /\ Len(tele.calls) < MaxMeas
  /\ tele.data_cfg.set
  /\ tele' = [tele EXCEPT !.data_cfg = NoDataCfg, !.captured = NoFrame]
  /\ UNCHANGED <<channelVars, seqVars, winVars, wait, ctl, disr, bus>>

\* A pass-through test that honours a missing configuration only.
TelPassesOnlyUnset(c) == ~c.set

\* if not cfg.enabled, line 134: the frame goes straight to the sink.
TelPassesUntouched(c) == ~c.enabled

\* lines 132 and 140: _last_meas is overwritten with the arriving frame before
\* the freeze branch reads it back.
FrozenFrame(before, seen) == seen

\* on_meas, lines 127-181; v is the arriving frame's value, r the draw of line
\* 146, g the draw of line 165 and u the jitter drawn at line 170.
OnMeasDisrupted(v, r, g, u) ==
  /\ Len(tele.calls) < MaxMeas
  /\ LET c == tele.data_cfg
         f == [id |-> Len(tele.calls) + 1, val |-> v]
         frozen == FrozenFrame(tele.last_meas, f)
         out == IF c.add_noise /\ c.noise_std > 0
                THEN [f EXCEPT !.val = @ + g * c.noise_std] ELSE f
         d0 == c.fixed_delay_s
         delay == IF c.jitter_s > 0 THEN Larger(0, d0 + u * c.jitter_s) ELSE d0
         call(fate) == [val |-> v, pass |-> ~c.set \/ ~c.enabled,
                        dropAll |-> c.set /\ c.drop_prob = 100,
                        frz |-> Freezing(c), captured |-> tele.captured, fate |-> fate]
         seen == [tele EXCEPT !.last_meas = f]
         deliver(x, fate) == [seen EXCEPT !.sink = Append(@, [id |-> x.id, val |-> x.val,
                                                              of |-> f.id, late |-> FALSE]),
                                          !.calls = Append(@, call(fate))]
     IN tele' = IF TelPassesUntouched(c) THEN deliver(f, "passed")
                ELSE IF c.freeze
                     THEN IF frozen # NoFrame THEN deliver(frozen, "frozen")
                          ELSE [seen EXCEPT !.calls = Append(@, call("ignored"))]
                ELSE IF c.drop_prob > 0 /\ r < c.drop_prob
                     THEN [seen EXCEPT !.calls = Append(@, call("dropped"))]
                ELSE IF delay <= 0 THEN deliver(out, "sent")
                ELSE [seen EXCEPT !.delayed = @ \cup {out}, !.calls = Append(@, call("queued"))]
  /\ UNCHANGED <<channelVars, seqVars, winVars, wait, ctl, disr, bus>>

\* _delayed_meas_delivery, lines 183-185: one of the sleeping threads wakes.
DelayedMeasDelivery(x) ==
  /\ x \in tele.delayed
  /\ tele' = [tele EXCEPT !.delayed = @ \ {x},
                          !.sink = Append(@, [id |-> x.id, val |-> x.val,
                                              of |-> x.id, late |-> TRUE])]
  /\ UNCHANGED <<channelVars, seqVars, winVars, wait, ctl, disr, bus>>

InitTel ==
  /\ cfg = [ka |-> FALSE, gate |-> TRUE, rc |-> TRUE, cb |-> TRUE]
  /\ Constructed
  /\ rx_thread = 0 /\ tx_thread = 0
  /\ pc = [p \in Procs |-> IF p = Main THEN "idle" ELSE "none"]
  /\ SeqIdle /\ WinIdle /\ WaitIdle /\ CtlIdle /\ DisIdle
  /\ bus = <<>>
  /\ tele = TelNew

\* The frames a delayed delivery may carry.
NoisyFrames == {[id |-> i, val |-> v + n] : i \in 1..(MaxMeas + 1), v \in MeasVals, n \in -1..1}

NextTel ==
  \/ \E c \in DataCfgs : SetDataDegraded(c)
  \/ ClearData
  \/ \E v \in MeasVals, r \in Randoms, g \in Gauss, u \in {-1, 0, 1} : OnMeasDisrupted(v, r, g, u)
  \/ \E x \in NoisyFrames : DelayedMeasDelivery(x)

SpecTel == InitTel /\ [][NextTel]_vars

\* The disruption layer of one channel, one direction at a time: the two paths
\* share the lock and the random generator and no other state.
InitInj == InitTel \/ InitDis

NextInj ==
  \/ tele # <<>> /\ NextTel
  \/ disr # <<>> /\ NextDis

SpecInj == InitInj /\ [][NextInj]_vars

\* time.sleep(delay_s) of lines 184 and 224 returns: a thread started for a
\* delayed delivery gets to make it.
SpecInjFair ==
  /\ SpecInj
  /\ WF_vars(\E x \in NoisyFrames : tele # <<>> /\ DelayedMeasDelivery(x))
  /\ WF_vars(\E i \in 1..MaxEmits : disr # <<>> /\ DelayedCmdDelivery(i))

\* ================================================== the data bus
\* One DataBus (src/Comms/data_bus.py), one channel behind it and the threads
\* that call emit_cmd: the control thread and a delayed-delivery worker of the
\* disruption layer.  The channel's command state is a copy of its own, written
\* by the loop of set_cmd.
MaxCap      == 2   \* the largest cmd_log_max a bus is built with
MaxBusEmits == 3   \* emit_cmd calls

Callers == {"control", "worker"}

\* The updates dicts the callers pass: one entry, or a known name followed by
\* an unknown one.
BusUpdates == UpdatesOfLen(1) \cup {<<<<"A", 3>>, <<UnknownName, 0>>>>}

NoCall == [pc |-> "idle", n |-> 0, u |-> <<>>]

\* __init__, lines 45-57.  calls, applied, emitted and faults are history: the
\* calls numbered in the order their set_cmd ran, those set_cmd accepted, every
\* event ever appended, and the calls that ended in a fault.
BusNew(cap) ==
  [cmd_log_max |-> cap, cmd_log |-> <<>>, chan |-> InitCmdState,
   at |-> [t \in Callers |-> NoCall], calls |-> 0, applied |-> <<>>, emitted |-> <<>>,
   faults |-> 0]

\* A slice that keeps the last k entries for every k.
LastEntries(l, k) == SubSeq(l, Larger(1, Len(l) - k + 1), Len(l))

\* l[-k:] of line 113 for k >= 0: the last k entries, and for k = 0 the slice
\* l[0:], the whole list.
SliceFromMinus(l, k) == IF k = 0 THEN l ELSE SubSeq(l, Larger(1, Len(l) - k + 1), Len(l))

\* lines 111-113: append, then cut when the list is longer than cmd_log_max.
AppendBounded(l, e, cap) ==
  LET a == Append(l, e) IN IF Len(a) > cap THEN SliceFromMinus(a, cap) ELSE a

\* A call that goes on to the log whatever set_cmd did.
AfterSetCmdAlways(raised) == "log"

\* line 100: an exception of set_cmd leaves emit_cmd at once.
AfterSetCmd(raised) == IF raised THEN "idle" ELSE "log"

\* emit_cmd, line 100: channel.set_cmd(updates), which runs its loop under the
\* channel's own lock.
BusSetCmd(t, u) ==
  /\ bus.at[t].pc = "idle"
  /\ bus.calls < MaxBusEmits
  /\ LET r == SetCmdLoop(bus.chan, u, FALSE)
         n == bus.calls + 1
         next == AfterSetCmd(r.raised)
     IN bus' = [bus EXCEPT
                  !.chan = r.st,
                  !.calls = n,
                  !.faults = IF r.raised THEN @ + 1 ELSE @,
                  !.applied = IF r.raised THEN @ ELSE Append(@, [n |-> n, u |-> u]),
                  !.at[t] = IF next = "idle" THEN NoCall ELSE [pc |-> next, n |-> n, u |-> u]]
  /\ UNCHANGED <<channelVars, seqVars, winVars, wait, ctl, disr, tele>>

\* emit_cmd, lines 102-113: the event is built and, under the bus lock,
\* appended to the log, which is then cut to its capacity.
BusAppend(t) ==
  /\ bus.at[t].pc = "log"
  /\ LET evt == [n |-> bus.at[t].n, channel |-> "CH", updates |-> bus.at[t].u]
     IN bus' = [bus EXCEPT
                  !.cmd_log = AppendBounded(@, evt, bus.cmd_log_max),
                  !.emitted = Append(@, evt),
                  !.at[t] = NoCall]
  /\ UNCHANGED <<channelVars, seqVars, winVars, wait, ctl, disr, tele>>

InitBus ==
  /\ cfg = [ka |-> FALSE, gate |-> TRUE, rc |-> TRUE, cb |-> TRUE]
  /\ Constructed
  /\ rx_thread = 0 /\ tx_thread = 0
  /\ pc = [p \in Procs |-> IF p = Main THEN "idle" ELSE "none"]
  /\ SeqIdle /\ WinIdle /\ WaitIdle /\ CtlIdle /\ DisIdle
  /\ tele = <<>>
  /\ \E cap \in 0..MaxCap : bus = BusNew(cap)

NextBus ==
  \/ \E t \in Callers, u \in BusUpdates : BusSetCmd(t, u)
  \/ \E t \in Callers : BusAppend(t)

SpecBus == InitBus /\ [][NextBus]_vars

\* ------------------------------------------------------------- properties
Last(q) == q[Len(q)]
TxThreads == {i \in Threads : Alive(<<"tx", i>>)}
RxThreads == {i \in Threads : Alive(<<"rx", i>>)}
\* The calls so far that changed a value and returned normally.
NChanging == Cardinality({n \in 1..Len(kinds) : kinds[n] = "changing"})
NoFaultYet == \A n \in 1..Len(kinds) : kinds[n] # "fault"
NoValueChangedYet == \A n \in 1..Len(hist) : hist[n] = InitCmdState
\* What the simulator last got, the power-on defaults before the first frame.
LastSentState == IF wire = <<>> THEN InitCmdState ELSE wire[1]
\* A TX thread between the send and the clearing of the flag: its frame is the
\* one just transmitted.
JustSent(i) == pc[<<"tx", i>>] = "clr"

\* C1: a set_cmd call that ends in the configuration fault for an unknown name
\* leaves every command field as it was before the call.
C1_UnknownNameLeavesStateUnmodified ==
  (kinds # <<>> /\ Last(kinds) = "fault") => cmd_state = hist[Len(hist) - 1]

\* C2: once a disconnect has been handled, the dirty flag stays set until a frame
\* has gone out, so that the held command is retransmitted after the reconnect.
C2_ResyncAfterDisconnect == resyncOwed => dirty

\* C3 (as stated): on a gated channel every frame goes out while the ready-to-send
\* field of the latest received telemetry frame reads 1.
C3_SentOnlyWhileLatestReady == (cfg.gate /\ wire # <<>>) => ~sentUnready

\* C3 (amended): on a gated channel a transmit tick builds and sends a frame only
\* after its gate check read ready-to-send = 1 in the telemetry frame that was the
\* latest at that check, and nothing is sent before the first telemetry frame.
C3_SentOnlyAfterReadyGate ==
  cfg.gate =>
    /\ \A i \in Threads :
         pc[<<"tx", i>>] \in {"build", "send", "clr"} => gateRts[i] = 1
    /\ wire # <<>> => latest_meas # NoMeas

C3_Witness ==
  /\ cfg.gate
  /\ \E i \in Threads : JustSent(i) /\ ~dirty
  /\ nsent = MaxFrames

\* C4: with no keepalive and no socket error, frames never outnumber the set_cmd
\* calls that changed a value, and after exactly one such call the channel comes to
\* rest (flag clear, transmit loop outside a send) with exactly one frame sent.
C4_OneFramePerChange ==
  (~cfg.ka /\ rx_errors = 0 /\ tx_errors = 0) =>
    /\ nsent <= NChanging
    /\ \A i \in Threads :
         (/\ NChanging = 1 /\ pc[Main] = "idle" /\ ~dirty
          /\ pc[<<"tx", i>>] \in {"top", "ens", "tick"})
         => nsent = 1

C4_Witness ==
  /\ ~cfg.ka /\ cfg.gate /\ rx_errors = 0 /\ tx_errors = 0
  /\ latest_meas = 1
  /\ kinds = <<"changing", "redundant">>
  /\ pc[Main] = "idle" /\ ~dirty /\ pc[<<"tx", 1>>] = "tick"
  /\ nsent = 1 /\ wire = <<cmd_state>>

\* C5: whenever set_cmd has returned and the held command state differs from the
\* frame last transmitted, the dirty flag is true (stated for runs without a
\* configuration fault).
C5_DirtyWhileUnsent ==
  (NoFaultYet /\ pc[Main] = "idle" /\ cmd_state # LastSentState) => dirty

\* C6: a transmitted frame is the command state as whole set_cmd calls left it: it
\* holds no value written by a call that ended in a configuration fault.
C6_FrameHoldsWholeCallsOnly ==
  \A i \in Threads : JustSent(i) => wire = <<ahist[builtVer[i]]>>

\* C7: the held value of every field is the one its latest applied write asked for,
\* and a frame carries the command state as it stood when its tick built it.
C7_LatestWriteWinsFrameIsSnapshot ==
  /\ cmd_state = lastReq
  /\ \A i \in Threads :
       /\ pc[<<"tx", i>>] \in {"send", "clr"} => payload[i] = hist[builtVer[i]]
       /\ JustSent(i) => wire = <<payload[i]>>

\* Two writes of one field between two ticks, and the frame carries the second.
C7_Witness ==
  /\ Len(kinds) = 2
  /\ hist[2]["B"] = 3 /\ hist[3]["B"] = 0 /\ hist[3]["A"] = 2
  /\ nsent = 1 /\ JustSent(1) /\ builtVer[1] = 3 /\ wire = <<hist[3]>>

\* C8: a set_cmd call whose every value, once coerced, equals the value held
\* leaves the command state as it was and returns without marking the channel dirty.
C8_RedundantCallChangesNothing ==
  (kinds # <<>> /\ Last(kinds) = "redundant") =>
    /\ cmd_state = hist[Len(hist) - 1]
    /\ pc[Main] = "idle"

\* The second of two identical calls, on a value that coercion changes (1.5 held as 1).
C8_Witness ==
  /\ kinds = <<"changing", "redundant">>
  /\ cmd_state["A"] = 2
  /\ nsent = 1 /\ ~dirty

\* C9: with no keepalive, no frame is transmitted before a set_cmd call has changed
\* a command value.
C9_NothingSentBeforeFirstChange ==
  (~cfg.ka /\ NoValueChangedYet) => wire = <<>>

\* C10: a channel never has more than one receive worker nor more than one
\* transmit worker running.
C10_OneWorkerOfEachKind ==
  /\ Cardinality(RxThreads) <= 1
  /\ Cardinality(TxThreads) <= 1

\* Sockets some thread still holds: self._sock, or the local of a thread that is
\* between _connect() and the assignment, or between reading and closing.
Referenced == {sock} \cup {loc[p] : p \in Procs}

\* C11: a channel has at most one open connection at any moment, and no opened
\* socket is left unreferenced and unclosed.
C11_AtMostOneOpenConnection ==
  /\ Cardinality(open) <= 1
  /\ open \subseteq Referenced

\* C12: after a receive or transmit socket error on a started, not stopped channel
\* with reconnect enabled, both worker loops stay alive (and keep retrying).
C12_WorkersSurviveSocketErrors ==
  (cfg.rc /\ ~stop_evt /\ rx_errors + tx_errors > 0)
    => /\ Alive(<<"rx", rx_thread>>)
       /\ Alive(<<"tx", tx_thread>>)

GateOrder == <<"remote", "grid_closed", "stable_tied", "wdet_clear", "dg_closed",
               "stable_enabled", "dg_reverified", "grid_open", "stable_island",
               "source_ok">>

\* The number of gates that precede the island command.
IslandGates == CHOOSE n \in 1..Len(GateOrder) : GateOrder[n] = "dg_reverified"

\* The kinds of command main() may have emitted once n gates are passed.
AllowedCmds(n) ==
  (IF n >= 1 THEN {"load0", "grid1"} ELSE {})
  \cup (IF n >= 2 THEN {"bess0", "chk", "dg0"} ELSE {})
  \cup (IF n >= 4 THEN {"blockgen", "arm", "resetgen"} ELSE {})
  \cup (IF n >= 5 THEN {"block"} ELSE {})
  \cup (IF n >= IslandGates THEN {"island"} ELSE {})
  \cup (IF n >= Len(GateOrder) THEN {"ramp", "ctrl"} ELSE {})

GateStages == {"remote", "grid", "stable1", "wdet", "stable2", "reverify", "gridopen",
               "stable3", "preramp"}
EnsureStages == {"ens_arm", "ens_wdet", "ens_pulse", "ens_brk"}
Ended == {"except", "finally", "done"}

\* C14: every run of the sequencer that started its channels ends, however it
\* ends, with stop() called on all four channels.
C14_TeardownAlwaysRuns ==
  (spc = "done" /\ started = Channels) => stopped = Channels

\* C15: the gates are passed in their order, a command is emitted only once the
\* gates before it are passed (the island command after the seven gates from
\* remote mode to the re-verified generator breaker), and a gate that is left
\* without being passed aborts the run.
C15_IslandOnlyAfterAllGates ==
  /\ [](/\ Len(passed) <= Len(GateOrder)
        /\ passed = SubSeq(GateOrder, 1, Len(passed))
        /\ emitted \subseteq AllowedCmds(Len(passed))
        /\ "island" \in emitted => Len(passed) >= IslandGates)
  /\ [][(/\ spc \in GateStages \cup EnsureStages
         /\ spc' \notin EnsureStages \cup {spc}
         /\ passed' = passed
         /\ outcome' # "error")
          => (spc' = "except" /\ outcome' = "aborted")]_vars

\* The island command has just been emitted, the seven gates passed.
C15_Witness ==
  /\ spc = "gridopen"
  /\ "island" \in emitted
  /\ passed = SubSeq(GateOrder, 1, IslandGates)

\* C16: ensure_dg_closed makes at most max_tries attempts, pulses REM_RESETGEN in
\* an attempt only after W_DETECTED was read as 0 in that attempt (a missing value
\* skips the pulse), and returns success only after BRKGEN was read as 1.
C16_EnsureBoundedAndInterlocked ==
  /\ [](/\ attempts <= DG_CLOSE_TRIES
        /\ spc \in {"ens_pulse", "ens_brk"} => wdetRead = 0
        /\ (spc = "stable2" /\ Len(passed) = 5) => brkRead = 1)
  /\ [][(spc = "ens_wdet" /\ wdetRead' # 0) => spc' # "ens_pulse"]_vars

\* Success on the second attempt, the first having skipped or missed.
C16_Witness ==
  /\ spc = "stable2"
  /\ Last(passed) = "dg_closed"
  /\ attempts = 2
  /\ "resetgen" \in emitted
  /\ wdetRead = 0 /\ brkRead = 1

\* C17: a ramp tick on which the generator breaker goes from closed to open aborts
\* the run, as a protection trip if the overload flag was asserted on the last
\* OVL_SUSTAIN_COUNT samples and as an unexplained disconnection otherwise.
C17_TripEdgeAborts ==
  tick.edge => /\ tick.result \in {"trip_overload", "trip_unknown"}
               /\ tick.result = "trip_overload" <=> tick.sustained

\* C18: a ramp tick on which neither the grid breaker nor the generator breaker
\* reads 1 (a missing reading is not 1) emits no command and aborts the run.
C18_NoCommandWhileBothSourcesOff ==
  tick.bothOff => /\ tick.emits = {}
                  /\ tick.result \in {"trip_overload", "trip_unknown", "no_edge"}
                  /\ spc \in Ended
                  /\ outcome # "completed"

\* The load was ramped on an earlier tick; on this one both sources read off.
C18_Witness ==
  /\ tick.bothOff /\ tick.result = "no_edge"
  /\ "ramp" \in emitted
  /\ ramp_k = 2
  /\ spc = "except"

\* C19: the ramp aborts for sustained detection exactly on the tick that completes
\* WDET_SUSTAIN_COUNT consecutive reads of W_DETECTED = 1.
C19_SustainedDetectionAborts ==
  /\ AllAsserted(wdetHist, WDET_SUSTAIN_COUNT) <=> tick.result = "wdet"
  /\ tick.result = "wdet" => spc \in Ended /\ outcome # "completed"

\* The count was restarted once: the first tick read no detection, the next three
\* read it.
C19_Witness ==
  /\ tick.result = "wdet"
  /\ ramp_k = 3
  /\ wdetHist = <<1, 1, 1>>
  /\ spc = "except"

\* ------------------------------------------ the stability predicate's property
Clear(v) == v \in {Missing, 0}

\* C20: the stability predicate returns false for every window that holds a sample
\* with OVERLOADED or W_DETECTED non-zero, false for every window of fewer than 10
\* samples, and true for every window of 10 or more samples whose signals are all
\* present and constant and whose flags are 0.
C20_StabilityPredicate ==
  verdict # "none" =>
    /\ (\E i \in 1..Len(window) : ~Clear(window[i].ovl) \/ ~Clear(window[i].wd))
         => verdict = "no"
    /\ Len(window) < 10 => verdict = "no"
    /\ (/\ Len(window) >= 10
        /\ \A i \in 1..Len(window) : window[i] = window[1]
        /\ window[1].sig # Missing /\ window[1].ovl = 0 /\ window[1].wd = 0)
         => verdict = "ok"

\* Eleven constant samples, the newest of them with the overload flag asserted,
\* are refused.
C20_Witness ==
  /\ verdict = "no"
  /\ Len(window) = 11
  /\ \A i \in 1..10 : window[i] = [sig |-> 0, ovl |-> 0, wd |-> 0]
  /\ window[11] = [sig |-> 0, ovl |-> 1, wd |-> 0]


\* C21: a wait whose condition is never satisfied returns failure no earlier
\* than its timeout and no later than its timeout plus one polling period,
\* and main() then raises instead of going on to the next statement of the
\* stage; while the wait is still polling, no more than the timeout plus one
\* period has gone by.
C21_WaitFailsWithinOneTick ==
  /\ wait.result = "false" =>
       /\ wait.now - wait.t0 >= wait.timeout_s
       /\ wait.now - wait.t0 <= wait.timeout_s + PollTick
  /\ wait.wpc \in {"test", "read", "sleep"} =>
       wait.now - wait.t0 <= wait.timeout_s + PollTick
  /\ (wait.wpc = "done" /\ wait.result = "false") => wait.after = "raise"
  /\ wait.after = "next" => wait.result = "true"

\* A wait that gave up strictly after its timeout, and the run aborted on it.
C21_Witness ==
  /\ wait.wpc = "done" /\ wait.result = "false" /\ wait.after = "raise"
  /\ wait.now - wait.t0 > wait.timeout_s

\* What the last update returned and what the one before it had returned.
Out == ctl.last_cmd
Before == ctl.prev
\* An update has just returned; it ran the whole synthesis (Normal), or held.
Stepped == ctl.kind # "none" /\ ctl.fresh
Normal == Stepped /\ ctl.kind = "normal"
Held == Stepped /\ ctl.kind = "hold"

\* C22: from one update to the next REM_Wref and REM_PREF rise by at most
\* rate_up * dt and fall by at most rate_down * dt, whatever the kind of the
\* step (normal, overload, disabled, stale hold) and its inputs.
C22_OutputsRateLimited ==
  Stepped =>
    /\ Out.REM_Wref - Before.REM_Wref <= wref_rate_up * Dt
    /\ Before.REM_Wref - Out.REM_Wref <= wref_rate_down * Dt
    /\ Out.REM_PREF - Before.REM_PREF <= pref_rate_up * Dt
    /\ Before.REM_PREF - Out.REM_PREF <= pref_rate_down * Dt

\* A step whose clamped target lay more than one rate step under the last
\* output: loading over the limit, and REM_PREF fell by exactly the rate.
C22_Witness ==
  /\ Normal /\ ctl.inp.SMACH > SMACH_limit
  /\ Before.REM_PREF - Out.REM_PREF = pref_rate_down * Dt
  /\ Out.REM_PREF > Pref_min
  /\ Out.REM_Wref - Before.REM_Wref = wref_rate_up * Dt

\* C23: in every update in which SMACH exceeds the hard limit the emitted
\* REM_PREF is strictly below Pref_base (stated for the steps that run the
\* setpoint synthesis).
C23_PrefBelowBaseOverLimit ==
  (Normal /\ ctl.inp.SMACH # Missing /\ ctl.inp.SMACH > SMACH_limit)
    => Out.REM_PREF < Pref_base

\* C24: in an update that reads the voltage under its soft or hard threshold
\* the emitted REM_PREF is not above the one emitted by the update before
\* (stated for the steps that run the voltage guard).
C24_NoIncreaseWhileVoltageLow ==
  (Normal /\ ctl.inp.GENRMSPU # Missing /\ ctl.inp.GENRMSPU < Vsoft_pu)
    => Out.REM_PREF <= Before.REM_PREF

\* The overload flag as the last update read it.
FlagAsserted == ctl.inp.OVERLOADED # Missing /\ ctl.inp.OVERLOADED # 0
FlagCleared == ctl.inp.OVERLOADED = 0
NoOverrideSet == ctl.remote_block_override = NoOverride
SustainedSince ==
  FlagAsserted /\ ctl.ovl_since # NoTs /\ ctl.now - ctl.ovl_since >= overload_hard_after_s

C26_TripPulseOneShot ==
  (Stepped /\ ctl.trip_at # NoTs /\ ctl.req_at = NoTs) =>
    Out.REM_RESETGEN = IF ctl.now < ctl.trip_at + reset_pulse_s THEN 1 ELSE 0

\* The measurement of the last update was stale by the clock of the updates.
StaleByClock == ctl.usable_at # NoTs /\ ctl.now - ctl.usable_at > max_stale_s

C28_PulseWindowAnyStep ==
  (Stepped /\ ctl.req_at # NoTs /\ ctl.now > ctl.req_at) =>
    /\ ctl.now < ctl.req_at + reset_pulse_s => Out.REM_RESETGEN = 1
    /\ (ctl.now >= ctl.req_at + reset_pulse_s /\ ctl.trip_at = NoTs)
         => Out.REM_RESETGEN = 0

\* C29: with the base setpoints inside the limits, every command has REM_Wref
\* in [Wref_min, Wref_max] and REM_PREF in [Pref_min, Pref_max].
C29_OutputsWithinLimits ==
  /\ Wref_min <= Out.REM_Wref /\ Out.REM_Wref <= Wref_max
  /\ Pref_min <= Out.REM_PREF /\ Out.REM_PREF <= Pref_max

\* Both outputs at their upper limit with the speed far under its target: the
\* targets before the clamp were above the limits.
C29_Witness ==
  /\ Normal /\ ctl.inp.WPU = 80 /\ ctl.inp.SMACH = 130
  /\ ctl.inp.GENRMSPU = 100 /\ ctl.inp.OVERLOADED = 0
  /\ Out.REM_PREF = Pref_max /\ Out.REM_Wref = Wref_max
  /\ Wref_base + WrefFromWpu(80) > Wref_max
  /\ Pref_base + PrefFromWpu(80) > Pref_max

\* C30: no command of an emit_cmd call made while the channel's configuration
\* has block_all set reaches the sink, whatever the other fields of the
\* configuration.
C30_BlockAllBlocksEverything == disr.leaked = 0

\* ------------------------------------------- the disruption layer's telemetry
\* The deliveries to the telemetry sink, and the call each one stems from.
Deliveries == {tele.sink[j] : j \in 1..Len(tele.sink)}
CallOf(e) == tele.calls[e.of]
FrameOf(e) == [id |-> e.id, val |-> e.val]

\* C31: no frame of an on_meas call made while the channel's configuration has
\* drop_prob = 1.0 reaches the telemetry sink, at once or later, whatever the
\* other fields of the configuration.
C31_DropAllDropsEverything ==
  /\ \A e \in Deliveries : ~CallOf(e).dropAll
  /\ \A x \in tele.delayed : ~tele.calls[x.id].dropAll

\* C32: a delivery made by an on_meas call while freezing is on carries the
\* frame _last_meas held when freezing was switched on, not a later frame.
C32_FrozenDeliveriesEqualCaptured ==
  \A e \in Deliveries :
    (CallOf(e).frz /\ CallOf(e).captured # NoFrame) => FrameOf(e) = CallOf(e).captured

\* The deliveries that stem from call i, and the frames of call i still held
\* by a sleeping thread.
DeliveriesOf(i) == {j \in 1..Len(tele.sink) : tele.sink[j].of = i}
PendingOf(i) == {x \in tele.delayed : x.id = i}

\* Every frame that arrived under a pass-through configuration is in the sink
\* once, as it arrived, put there by the call itself, and these frames are in
\* the sink in arrival order.
TelPassThrough ==
  tele # <<>> =>
    /\ \A i \in 1..Len(tele.calls) :
         tele.calls[i].pass =>
           /\ \E j \in 1..Len(tele.sink) :
                /\ DeliveriesOf(i) = {j}
                /\ tele.sink[j] = [id |-> i, val |-> tele.calls[i].val, of |-> i, late |-> FALSE]
           /\ PendingOf(i) = {}
    /\ \A j, k \in 1..Len(tele.sink) :
         (j < k /\ CallOf(tele.sink[j]).pass /\ CallOf(tele.sink[k]).pass)
           => tele.sink[j].of < tele.sink[k].of

\* An emit_cmd call under a pass-through configuration writes to the sink
\* within the call and starts no thread.
CmdPassThrough ==
  (/\ disr # <<>>
   /\ disr'.emits = disr.emits + 1
   /\ ~disr.auto_cfg.set \/ ~disr.auto_cfg.enabled)
  => /\ disr'.sunk = disr.sunk + 1
     /\ disr'.delayed = disr.delayed

TelExactlyOnce ==
  tele # <<>> =>
    /\ \A i \in 1..Len(tele.calls) :
         Cardinality(DeliveriesOf(i)) + Cardinality(PendingOf(i)) =
           IF tele.calls[i].fate = "dropped" THEN 0 ELSE 1
    /\ \A e \in Deliveries : e.of \in 1..Len(tele.calls) /\ e.id = e.of
    /\ \A x \in tele.delayed : x.id \in 1..Len(tele.calls)

\* The commands written to the sink or held by a sleeping thread.
CmdHeld(d) == d.sunk + Len(d.delayed)

\* An emit_cmd call adds one command to those written or held, unless the
\* configuration in force blocks it or may drop it; any other step leaves
\* their number alone, and moves at most one from held to written.
CmdExactlyOnce ==
  disr # <<>> =>
    /\ disr'.emits = disr.emits =>
         /\ CmdHeld(disr') = CmdHeld(disr)
         /\ disr'.sunk \in {disr.sunk, disr.sunk + 1}
    /\ disr'.emits = disr.emits + 1 =>
         LET c == disr.auto_cfg
         IN /\ CmdHeld(disr') - CmdHeld(disr) \in
                 (IF c.enabled /\ (c.block_all \/ c.drop_prob = 100) THEN {0}
                  ELSE IF c.enabled /\ c.drop_prob > 0 THEN {0, 1} ELSE {1})
            /\ disr'.sunk >= disr.sunk /\ Len(disr'.delayed) >= Len(disr.delayed)

\* A frame or a command held by a sleeping thread gets delivered.
TelPendingDelivered ==
  \A x \in NoisyFrames :
    (tele # <<>> /\ x \in tele.delayed)
      ~> (tele # <<>> /\ \E e \in Deliveries : FrameOf(e) = x /\ e.late)
CmdPendingDelivered ==
  \A n \in 0..MaxEmits :
    (disr # <<>> /\ Len(disr.delayed) > 0 /\ disr.sunk = n)
      ~> (disr # <<>> /\ disr.sunk > n)

C34_LogIsBoundedFifo ==
  /\ Len(bus.cmd_log) <= bus.cmd_log_max
  /\ bus.cmd_log = LastEntries(bus.emitted, bus.cmd_log_max)

\* The calls whose event is in the log's history, in the order of the events.
LoggedCalls == [i \in 1..Len(bus.emitted) |-> bus.emitted[i].n]
InRange(f, x) == \E i \in 1..Len(f) : f[i] = x

\* Every event records the channel and the updates of a call whose set_cmd
\* returned, no call has two events, and a call set_cmd accepted has its event
\* or is on its way to the log.
LoggedIsAccepted ==
  /\ \A i \in 1..Len(bus.emitted) :
       /\ \E j \in 1..Len(bus.applied) :
            bus.applied[j] = [n |-> bus.emitted[i].n, u |-> bus.emitted[i].updates]
       /\ bus.emitted[i].channel = "CH"
       /\ \A k \in 1..Len(bus.emitted) : bus.emitted[k].n = bus.emitted[i].n => k = i
  /\ \A j \in 1..Len(bus.applied) :
       \/ InRange(LoggedCalls, bus.applied[j].n)
       \/ \E t \in Callers : bus.at[t] = [pc |-> "log", n |-> bus.applied[j].n,
                                          u |-> bus.applied[j].u]
  /\ bus.calls = Len(bus.applied) + bus.faults

\* The step of a call that ends in a fault leaves the log alone and the call
\* over; the step that appends adds one event at the end of the log.
FaultLeavesLog ==
  /\ bus'.faults > bus.faults =>
       /\ bus'.cmd_log = bus.cmd_log /\ bus'.emitted = bus.emitted
       /\ \A t \in Callers : bus.at[t].pc = "idle" => bus'.at[t].pc = "idle"
  /\ bus'.emitted # bus.emitted =>
       /\ Len(bus'.emitted) = Len(bus.emitted) + 1
       /\ bus'.cmd_log # <<>> => bus'.cmd_log[Len(bus'.cmd_log)] = bus'.emitted[Len(bus'.emitted)]

\* C35: emit_cmd applies the updates through set_cmd and then appends one
\* event with the channel name and the updates; when set_cmd signals a fault
\* the call ends there and the log is unchanged, so every logged event is of a
\* command the channel accepted.
C35_LoggedOnlyAfterAccepted == []LoggedIsAccepted /\ [][FaultLeavesLog]_vars

\* One call accepted and logged, the next refused at an unknown name after it
\* had written a known one.
C35_Witness ==
  /\ bus.faults = 1 /\ bus.calls = 2
  /\ Len(bus.emitted) = 1 /\ bus.emitted[1].n = 1
  /\ bus.chan["A"] = 2 /\ bus.emitted[1].updates = <<<<"A", 0>>>>
  /\ \A t \in Callers : bus.at[t].pc = "idle"

\* The events that write field k, by their place in the log's history.
EventsWriting(k) ==
  {i \in 1..Len(bus.emitted) :
     \E j \in 1..Len(bus.emitted[i].updates) : bus.emitted[i].updates[j][1] = k}
\* The value event i writes to field k, as set_cmd stores it.
LoggedValue(i, k) ==
  LET u == bus.emitted[i].updates
      j == CHOOSE j \in 1..Len(u) : u[j][1] = k
  IN Coerce(CmdTypes[IndexOf(k)], u[j][2])
Latest(S) == CHOOSE i \in S : \A j \in S : j <= i

\* C39: the events of concurrent callers are in the log in the order in which
\* their set_cmd writes were applied to the channel; hence, once the calls are
\* over and none was refused, the last logged event for a field is the value
\* the channel holds.
C39_LastLoggedIsHeld ==
  ((\A t \in Callers : bus.at[t].pc = "idle") /\ bus.faults = 0) =>
    \A k \in CmdFields :
      EventsWriting(k) # {} => bus.chan[k] = LoggedValue(Latest(EventsWriting(k)), k)

\* ------------------------------------------------------ the pulse's property
\* The pulse is over and the transmit loop has nothing left to send.
PulseSettled ==
  /\ Len(kinds) = 2 /\ pc[Main] = "idle"
  /\ ~dirty
  /\ \A i \in Threads : pc[<<"tx", i>>] \in {"none", "top", "ens", "tick"}

\* C36: a pulse sends 1 and then 0.  On a connection without errors the frames
\* of SpecPulse all follow the first write of the pulse, and no frame built
\* after its second write can carry 1: so the first frame carries 1, and once
\* nothing is left to send a second frame has carried 0.
C36_PulseSendsOneThenZero ==
  /\ nsent = 1 => wire[1][PulseField] = PulseOnVal
  /\ (PulseSettled /\ sock \in open) => (nsent = 2 /\ wire[1][PulseField] = 0)

\* ------------------------------------------------------ stop() and the socket
\* stop() has returned, no start() followed it, and no worker is left.
StoppedAndExited ==
  /\ stop_evt /\ pc[Main] = "idle"
  /\ \A w \in Workers : ~Alive(w)

\* C37: once stop() was called and both worker loops have exited, self._sock
\* is not an open socket, however stop() interleaved with a connect under way
\* in a worker.
C37_NoSocketAfterStop == StoppedAndExited => sock \notin open

\* ------------------------------------------------------ the hard trip's history
\* The step is an update, and the update before it did not read the overload
\* flag asserted: the flag was missing from its measurements, or it was a
\* stale hold, which reads no measurement.
AfterUnreadFlag ==
  /\ ctl'.now = ctl.now + Dt
  /\ \/ ctl.kind = "hold"
     \/ ctl.kind = "normal" /\ ctl.inp.OVERLOADED = Missing

\* The update trips: it ran the overload logic and that de-asserted the enable.
Trips(c) ==
  /\ c.kind = "normal"
  /\ c.remote_block_override = NoOverride
  /\ c.last_cmd.REM_BLOCKGEN = 0

\* C38: a hard trip needs the overload flag asserted in every update of the
\* preceding overload_hard_after_s; an update with the flag missing and a
\* stale hold do not count as overload, so the update that follows one of them
\* is at best the first of a new run and does not trip.
C38_TripNeedsUnbrokenOverload == [][AfterUnreadFlag => ~Trips(ctl')]_vars

====
